---- MODULE Spec2Model ----
(***************************************************************************)
(* Savior (savior.umd.js): client-side form autosave.  The module models   *)
(* the field adapters, the adapter registry, SaviorCore (attach, restore,  *)
(* debounced capture, clear on submit) and Savior.init, as used by the     *)
(* site script adaptations.js.                                             *)
(***************************************************************************)
EXTENDS Integers, Sequences, FiniteSets, TLC

(***************************************************************************)
(* Bounds of the model.                                                    *)
(***************************************************************************)
\* Longest form.elements list of the capture specification.
MaxElems == 3

\* Longest form.elements list of the restore specification.
MaxRestoreElems == 2

\* Forms on the page.
NForms == 2

\* The saveDelayMs option, in ticks of the clock.
SaveDelayTicks == 2

\* Input events counted within one burst (longer bursts count as this).
MaxBurst == 2

\* Most radio buttons of one group in the adapter specification.
MaxGroup == 3

\* Longest adapter list handed to the registry.
MaxAdapters == 3
MaxRecapture == 2

\* The longest post-detection delay of the site page, in ticks.
MaxContactDelay == 2

\* Lengths on the site page, in pixels: the margin around the viewport that
\* the listener allows, window.innerHeight and the height of #contact.
Margin == 300
InnerHeight == 600
ContactHeight == 300

(***************************************************************************)
(* JavaScript values.  Every value is a record of one shape: t is the      *)
(* typeof-like tag, s the string payload, b the boolean payload, a the     *)
(* array payload (a sequence of strings).                                  *)
(***************************************************************************)
V(t, s, b, a) == [t |-> t, s |-> s, b |-> b, a |-> a]

Undefined == V("undefined", "", FALSE, << >>)

Null == V("null", "", FALSE, << >>)

Str(s) == V("string", s, FALSE, << >>)

Bool(b) == V("boolean", "", b, << >>)

Arr(a) == V("array", "", FALSE, a)

\* A number, kept by its decimal text.
Num(s) == V("number", s, FALSE, << >>)

\* A plain object whose content the adapters never look into.
Obj == V("object", "", FALSE, << >>)

\* A function value, e.g. an inherited Object.prototype method.
Fn == V("function", "", FALSE, << >>)

\* JavaScript Boolean(v).
ToBoolean(v) ==
  CASE v.t = "undefined" -> FALSE
    [] v.t = "null" -> FALSE
    [] v.t = "boolean" -> v.b
    [] v.t = "string" -> v.s # ""
    [] v.t = "number" -> v.s \notin {"0", "NaN"}
    [] OTHER -> TRUE

\* JavaScript  x ?? d.
NullishCoalesce(x, d) == IF x.t \in {"undefined", "null"} THEN d ELSE x

(***************************************************************************)
(* DOM elements of form.elements.  tag and type give the element class and *)
(* its type property; value is the current value of a text-like control    *)
(* and the value content attribute of a checkbox or radio (hasValueAttr    *)
(* tells whether it is set); options are a select's options.               *)
(***************************************************************************)
Opt(v, sel) == [value |-> v, selected |-> sel]

El(tag, type, name, hasValueAttr, value, checked, options) ==
  [tag |-> tag, type |-> type, name |-> name, hasValueAttr |-> hasValueAttr,
   value |-> value, checked |-> checked, options |-> options]

TextInput(type, name, value) == El("input", type, name, TRUE, value, FALSE, << >>)

TextArea(name, value) == El("textarea", "textarea", name, TRUE, value, FALSE, << >>)

Checkbox(name, checked) == El("input", "checkbox", name, FALSE, "", checked, << >>)

Radio(name, hasValueAttr, value, checked) ==
  El("input", "radio", name, hasValueAttr, value, checked, << >>)

SelectOne(name, options) == El("select", "select-one", name, FALSE, "", FALSE, options)

SelectMultiple(name, options) ==
  El("select", "select-multiple", name, FALSE, "", FALSE, options)

\* Listed elements that are no input, textarea or select (button, fieldset).
OtherElement(tag, type, name) == El(tag, type, name, FALSE, "", FALSE, << >>)

IsInput(el) == el.tag = "input"

IsTextArea(el) == el.tag = "textarea"

IsSelect(el) == el.tag = "select"

\* element.multiple of a select.
Multiple(el) == el.type = "select-multiple"

RECURSIVE SelectedValues(_)
\* Array.from(element.selectedOptions).map(opt => opt.value)
SelectedValues(options) ==
  IF options = << >> THEN << >>
  ELSE IF Head(options).selected
       THEN <<Head(options).value>> \o SelectedValues(Tail(options))
       ELSE SelectedValues(Tail(options))

\* element.value as the DOM returns it: always a string.  A checkbox or radio
\* without a value attribute reads "on"; a select reads its first selected
\* option's value, or "" when none is selected.
DomValue(el) ==
  IF IsInput(el) /\ el.type \in {"checkbox", "radio"}
  THEN Str(IF el.hasValueAttr THEN el.value ELSE "on")
  ELSE IF IsSelect(el)
       THEN LET sel == SelectedValues(el.options)
            IN  Str(IF sel = << >> THEN "" ELSE sel[1])
       ELSE Str(el.value)

(***************************************************************************)
(* Field adapters.                                                         *)
(***************************************************************************)
textLikeTypes == {"text", "search", "email", "url", "tel"}

supportedTypes ==
  {"number", "range", "date", "time", "datetime-local", "month", "week", "color"}

\* A mutant of TextCanHandle: the type of an input is not looked at.
TextCanHandleAnyInput(el) == IsInput(el) \/ IsTextArea(el)

TextCanHandle(el) ==
  IF ~IsInput(el) /\ ~IsTextArea(el) THEN FALSE
  ELSE IF IsTextArea(el) THEN TRUE
  ELSE el.type \in textLikeTypes

TextReadValue(el) == NullishCoalesce(DomValue(el), Str(""))

TextWriteValue(el, value) ==
  [el EXCEPT !.value = IF value.t = "string" THEN value.s ELSE ""]

CheckboxCanHandle(el) == IsInput(el) /\ el.type = "checkbox"

CheckboxReadValue(el) == Bool(el.checked)

CheckboxWriteValue(el, value) == [el EXCEPT !.checked = ToBoolean(value)]

RadioCanHandle(el) == IsInput(el) /\ el.type = "radio"

\* A mutant of RadioReadValue: the unchecked member reports its value too.
RadioReadValueAlways(el) == NullishCoalesce(DomValue(el), Str("on"))

RadioReadValue(el) ==
  IF ~el.checked THEN Undefined
  ELSE NullishCoalesce(DomValue(el), Str("on"))

\* A mutant of RadioWriteValue: the button is never checked.
RadioWriteValueNeverChecks(el, savedValue) == [el EXCEPT !.checked = FALSE]

RadioWriteValue(el, savedValue) ==
  IF savedValue.t # "string" THEN [el EXCEPT !.checked = FALSE]
  ELSE [el EXCEPT !.checked = (DomValue(el) = Str(savedValue.s))]

SelectCanHandle(el) == IsSelect(el)

SelectReadValue(el) ==
  IF Multiple(el)
  THEN LET selected == SelectedValues(el.options)
       IN  IF Len(selected) > 0 THEN Arr(selected) ELSE Undefined
  ELSE LET value == DomValue(el)
       IN  IF ToBoolean(value) THEN value ELSE Undefined

\* Index of the first option whose value is v, 0 when there is none.
FirstOptionWith(options, v) ==
  LET hits == {i \in 1..Len(options) : options[i].value = v}
  IN  IF hits = {} THEN 0 ELSE CHOOSE i \in hits : \A j \in hits : i <= j

SelectWriteValue(el, savedValue) ==
  IF Multiple(el)
  THEN IF savedValue.t # "array" THEN el
       ELSE [el EXCEPT !.options =
               [i \in 1..Len(el.options) |->
                  Opt(el.options[i].value,
                      \E k \in 1..Len(savedValue.a) :
                         savedValue.a[k] = el.options[i].value)]]
  ELSE IF savedValue.t = "string"
       THEN \* element.value = savedValue: the first matching option becomes the
            \* only selected one; no match leaves nothing selected.
            [el EXCEPT !.options =
               [i \in 1..Len(el.options) |->
                  Opt(el.options[i].value,
                      i = FirstOptionWith(el.options, savedValue.s))]]
       ELSE el

ValueCanHandle(el) == IF ~IsInput(el) THEN FALSE ELSE el.type \in supportedTypes

ValueReadValue(el) == NullishCoalesce(DomValue(el), Str(""))

ValueWriteValue(el, value) ==
  [el EXCEPT !.value = IF value.t = "string" THEN value.s ELSE ""]

\* The adapters by name; "none" stands for null (no adapter).
defaultAdapters == <<"text", "checkbox", "radio", "select", "value">>

\* Adapters a caller can put into the list besides the default ones: "base"
\* is a FieldAdapter that overrides nothing (canHandle returns false), "any"
\* overrides canHandle to return true, "throwing" overrides it to throw.
customAdapters == {"base", "any", "throwing"}

\* Whether adapter.canHandle(element) throws.
CanHandleThrows(adapter, el) == adapter = "throwing"

\* What adapter.canHandle(element) returns when it returns.
CanHandle(adapter, el) ==
  CASE adapter = "text" -> TextCanHandle(el)
    [] adapter = "checkbox" -> CheckboxCanHandle(el)
    [] adapter = "radio" -> RadioCanHandle(el)
    [] adapter = "select" -> SelectCanHandle(el)
    [] adapter = "value" -> ValueCanHandle(el)
    [] adapter = "any" -> TRUE
    [] OTHER -> FALSE

ReadValue(adapter, el) ==
  CASE adapter = "text" -> TextReadValue(el)
    [] adapter = "checkbox" -> CheckboxReadValue(el)
    [] adapter = "radio" -> RadioReadValue(el)
    [] adapter = "select" -> SelectReadValue(el)
    [] OTHER -> ValueReadValue(el)

WriteValue(adapter, el, value) ==
  CASE adapter = "text" -> TextWriteValue(el, value)
    [] adapter = "checkbox" -> CheckboxWriteValue(el, value)
    [] adapter = "radio" -> RadioWriteValue(el, value)
    [] adapter = "select" -> SelectWriteValue(el, value)
    [] OTHER -> ValueWriteValue(el, value)

\* savedValue.includes(...) throws a TypeError unless savedValue has the
\* method: arrays and strings do.
IncludesThrows(savedValue) == savedValue.t \notin {"array", "string"}

\* A mutant of SelectWriteThrows: the Array.isArray test is missing.
SelectWriteThrowsNoArrayTest(el, savedValue) ==
  Multiple(el) /\ IncludesThrows(savedValue)

\* Whether SelectFieldAdapter.writeValue throws: includes is called on
\* savedValue only past the Array.isArray test.
SelectWriteThrows(el, savedValue) ==
  IF Multiple(el)
  THEN IF savedValue.t # "array" THEN FALSE ELSE IncludesThrows(savedValue)
  ELSE FALSE

\* Whether adapter.writeValue(element, value) throws.  The other default
\* adapters test typeof value or coerce it and assign a property.
WriteThrows(adapter, el, value) ==
  CASE adapter = "select" -> SelectWriteThrows(el, value)
    [] OTHER -> FALSE

RECURSIVE getFieldAdapterForElementNoCatch(_, _)
\* A mutant of getFieldAdapterForElement: no try/catch around canHandle, so
\* its error leaves the function ("Error").
getFieldAdapterForElementNoCatch(el, adapters) ==
  IF adapters = << >> THEN "none"
  ELSE IF CanHandleThrows(Head(adapters), el) THEN "Error"
  ELSE IF CanHandle(Head(adapters), el) THEN Head(adapters)
  ELSE getFieldAdapterForElementNoCatch(el, Tail(adapters))

RECURSIVE getFieldAdapterForElement(_, _)
\* The first adapter of the list that can handle the element, else "none";
\* an adapter whose canHandle throws is passed over (catch: continue).
getFieldAdapterForElement(el, adapters) ==
  IF adapters = << >> THEN "none"
  ELSE IF CanHandleThrows(Head(adapters), el)
       THEN getFieldAdapterForElement(el, Tail(adapters))
  ELSE IF CanHandle(Head(adapters), el) THEN Head(adapters)
  ELSE getFieldAdapterForElement(el, Tail(adapters))

(***************************************************************************)
(* SaviorCore.saveForm: the capture of a form into a draft.                *)
(***************************************************************************)
\* A fields object is a function from its own keys to values.
EmptyFields == [n \in {} |-> Undefined]

\* fields[name] = value
PutField(fields, name, value) ==
  [n \in (DOMAIN fields) \cup {name} |-> IF n = name THEN value ELSE fields[n]]

RECURSIVE CaptureLoopKeepAbsent(_, _, _)
\* A mutant of CaptureLoop: the test for an undefined value is missing.
CaptureLoopKeepAbsent(elements, i, fields) ==
  IF i > Len(elements) THEN fields
  ELSE LET element == elements[i]
           fieldName == element.name
           adapter == getFieldAdapterForElement(element, defaultAdapters)
       IN  IF fieldName = "" \/ element.type = "password" \/ adapter = "none"
           THEN CaptureLoopKeepAbsent(elements, i + 1, fields)
           ELSE CaptureLoopKeepAbsent(elements, i + 1,
                  PutField(fields, fieldName, ReadValue(adapter, element)))

RECURSIVE CaptureLoopNoSecretTest(_, _, _)
\* A mutant of CaptureLoop: the password test is missing and an input that no
\* adapter recognizes is read as text.
CaptureLoopNoSecretTest(elements, i, fields) ==
  IF i > Len(elements) THEN fields
  ELSE LET element == elements[i]
           fieldName == element.name
           found == getFieldAdapterForElement(element, defaultAdapters)
           adapter == IF found = "none" /\ IsInput(element) THEN "text" ELSE found
           value == ReadValue(adapter, element)
       IN  IF fieldName = "" \/ adapter = "none" \/ value.t = "undefined"
           THEN CaptureLoopNoSecretTest(elements, i + 1, fields)
           ELSE CaptureLoopNoSecretTest(elements, i + 1,
                  PutField(fields, fieldName, value))

RECURSIVE CaptureLoop(_, _, _)
\* The for loop of saveForm from index i on, with the fields collected so far.
CaptureLoop(elements, i, fields) ==
  IF i > Len(elements) THEN fields
  ELSE LET element == elements[i]
           fieldName == element.name
       IN  IF fieldName = "" THEN CaptureLoop(elements, i + 1, fields)
           ELSE IF element.type = "password"
                THEN CaptureLoop(elements, i + 1, fields)
           ELSE LET adapter == getFieldAdapterForElement(element, defaultAdapters)
                IN  IF adapter = "none" THEN CaptureLoop(elements, i + 1, fields)
                    ELSE LET value == ReadValue(adapter, element)
                         IN  IF value.t = "undefined"
                             THEN CaptureLoop(elements, i + 1, fields)
                             ELSE CaptureLoop(elements, i + 1,
                                    PutField(fields, fieldName, value))

\* saveForm up to the driver call: whether driver.save is called, and with
\* which draft.  A form without listed elements returns before the call.
\* (The draft's timestampUtc, the wall clock's reading, is left out.)
saveForm(elements, formId) ==
  IF Len(elements) = 0
  THEN [called |-> FALSE, formId |-> formId, fields |-> EmptyFields]
  ELSE [called |-> TRUE, formId |-> formId,
        fields |-> CaptureLoop(elements, 1, EmptyFields)]

(***************************************************************************)
(* Logging.  logDebug writes to the console.  logWarn returns when debug   *)
(* is off and otherwise calls warn(...), a name that nothing in the bundle *)
(* defines: under 'use strict' the call throws a ReferenceError.           *)
(***************************************************************************)
\* The outcome of the call warn(...): the name is not defined.
warn == "ReferenceError"

\* The outcome of a call of logWarn: "ok", or the error it throws.
logWarn(dbg) == IF ~dbg THEN "ok" ELSE warn

(***************************************************************************)
(* What driver.load gives back: it throws, or it returns a value.  A       *)
(* returned value is described by whether it is truthy, whether it is an   *)
(* object, and its `fields` property (undefined unless it is an object     *)
(* that has one).  A property value is a JavaScript value together with    *)
(* its own keys when it is an object.                                      *)
(***************************************************************************)
Prop(v, own) == [v |-> v, own |-> own]

NoProp == Prop(Undefined, EmptyFields)

\* A fields object with the given own keys.
FieldsObject(own) == Prop(Obj, own)

Loaded(kind, truthy, isObject, fields) ==
  [kind |-> kind, truthy |-> truthy, isObject |-> isObject, fields |-> fields]

LoadThrows == Loaded("throw", FALSE, FALSE, NoProp)

\* null (no draft, or a payload safeParse could not parse).
LoadNull == Loaded("value", FALSE, FALSE, NoProp)

\* A truthy payload that is no plain object: a number, a string, an array.
LoadTruthyNonDraft == Loaded("value", TRUE, FALSE, NoProp)

\* An object; fields is its `fields` property (NoProp when it has none).
LoadObject(fields) == Loaded("value", TRUE, TRUE, fields)

\* Names every object inherits from Object.prototype.
ObjectPrototypeKeys ==
  {"constructor", "toString", "toLocaleString", "valueOf", "hasOwnProperty",
   "isPrototypeOf", "propertyIsEnumerable", "__proto__"}

\* JavaScript  name in p : "TypeError" when p is no object, else whether p
\* has the property, own or inherited.
InOperator(name, p) ==
  IF p.v.t \notin {"object", "array"} THEN "TypeError"
  ELSE IF name \in DOMAIN p.own
          \/ name \in ObjectPrototypeKeys
          \/ (p.v.t = "array" /\ name = "length")
       THEN "true"
       ELSE "false"

\* JavaScript  p[name]  of a property that `in` found.
GetProperty(p, name) ==
  IF name \in DOMAIN p.own THEN p.own[name]
  ELSE IF p.v.t = "array" /\ name = "length" THEN Num("0")
  ELSE IF name = "__proto__" THEN Obj
  ELSE Fn

(***************************************************************************)
(* SaviorCore.restoreForm.                                                 *)
(***************************************************************************)
\* adapter.writeValue(element, savedValue) on element i of the form.  When
\* the write checks a radio button, the document unchecks the other
\* members of its group.
ApplyWrite(elements, i, adapter, savedValue) ==
  LET written == WriteValue(adapter, elements[i], savedValue)
  IN  [k \in 1..Len(elements) |->
         IF k = i THEN written
         ELSE IF /\ adapter = "radio" /\ written.checked
                 /\ RadioCanHandle(elements[k])
                 /\ elements[k].name = written.name
              THEN [elements[k] EXCEPT !.checked = FALSE]
              ELSE elements[k]]

Restored(elements, threw, written, loadCalls) ==
  [elements |-> elements, threw |-> threw, written |-> written,
   loadCalls |-> loadCalls]

RECURSIVE RestoreLoop(_, _, _, _)
\* The for loop of restoreForm from index i on; written holds the indices
\* writeValue was called on so far.
RestoreLoop(elements, i, fields, written) ==
  IF i > Len(elements) THEN Restored(elements, "none", written, 1)
  ELSE LET element == elements[i]
           fieldName == element.name
       IN  IF fieldName = "" THEN RestoreLoop(elements, i + 1, fields, written)
           ELSE LET has == InOperator(fieldName, fields)
                IN  IF has = "TypeError"
                    THEN Restored(elements, "TypeError", written, 1)
                    ELSE IF has = "false"
                    THEN RestoreLoop(elements, i + 1, fields, written)
                    ELSE LET adapter ==
                               getFieldAdapterForElement(element, defaultAdapters)
                         IN  IF adapter = "none"
                             THEN RestoreLoop(elements, i + 1, fields, written)
                             ELSE RestoreLoop(
                                    ApplyWrite(elements, i, adapter,
                                               GetProperty(fields, fieldName)),
                                    i + 1, fields, written \cup {i})

\* restoreForm: the form's elements afterwards, the error that left the
\* method (or "none"), the elements written, the calls of driver.load.
restoreForm(elements, loaded, debug) ==
  IF loaded.kind = "throw"
  THEN Restored(elements, IF logWarn(debug) = "ok" THEN "none" ELSE logWarn(debug),
                {}, 1)
  ELSE IF ~loaded.truthy \/ ~ToBoolean(loaded.fields.v)
  THEN Restored(elements, "none", {}, 1)
  ELSE IF Len(elements) = 0 THEN Restored(elements, "none", {}, 1)
  ELSE RestoreLoop(elements, 1, loaded.fields, {})


(***************************************************************************)
(* Web Storage and the storage drivers.  A storage area is a function from *)
(* its keys to the text kept under them.  A text is the JSON text of a     *)
(* draft, or any other string.                                             *)
(***************************************************************************)
Draft(formId, fields) == [formId |-> formId, fields |-> fields]

NoDraft == Draft("", EmptyFields)

\* A string that is not the JSON text of a draft.
Raw(s) == [json |-> FALSE, s |-> s, v |-> NoDraft]

\* JSON.stringify(draft): properties whose value is undefined are left out.
JSONStringify(draft) ==
  [json |-> TRUE, s |-> "",
   v |-> [draft EXCEPT !.fields =
            [n \in {k \in DOMAIN draft.fields : draft.fields[k].t # "undefined"}
               |-> draft.fields[n]]]]

\* What load returns: null, a draft, or another value that JSON.parse gave.
LoadResult(kind, draft) == [kind |-> kind, draft |-> draft]

LoadedNull == LoadResult("null", NoDraft)

\* safeParse(raw): JSON.parse, and null when it throws.  Of the strings that
\* are no draft's text, "1" parses (to a number) and the others do not.
safeParse(raw) ==
  IF raw.json THEN LoadResult("draft", raw.v)
  ELSE IF raw.s = "1" THEN LoadResult("other", NoDraft)
  ELSE LoadedNull

EmptyArea == [k \in {} |-> Raw("")]

setItem(area, key, text) ==
  [k \in (DOMAIN area) \cup {key} |-> IF k = key THEN text ELSE area[k]]

removeItem(area, key) == [k \in (DOMAIN area) \ {key} |-> area[k]]

\* !raw of raw = getItem(key): no item, or the empty string.
NoItem(area, key) == key \notin DOMAIN area \/ area[key] = Raw("")

\* The probe of isLocalStorageSupported and of checkStorageAvailable: where
\* the storage object is missing it returns false; where using it throws
\* the catch block runs (caught); else the test key is set and removed.
Probe(env, area, testKey) ==
  [ok |-> env = "ok", caught |-> env = "throws",
   area |-> IF env = "ok" THEN removeItem(setItem(area, testKey, Raw("1")), testKey)
            ELSE area]

isLocalStorageSupported(env, area) == Probe(env, area, "__savior_support_test__")

DEFAULT_OPTIONS == [storageKeyPrefix |-> Str("savior:"), debug |-> FALSE]

Driver(kind, storageKeyPrefix, dbg, isStorageAvailable, option, default) ==
  [kind |-> kind, storageKeyPrefix |-> storageKeyPrefix, debug |-> dbg,
   isStorageAvailable |-> isStorageAvailable,
   option |-> option, default |-> default]

NoDriver == Driver("none", Str(""), FALSE, FALSE, Undefined, FALSE)

\* new LocalStorageDriver(options) / new SessionStorageDriver(options) on the
\* driver's storage area: the driver, the area afterwards, and whether the
\* constructor threw (logWarn in the catch block of checkStorageAvailable).
\* option and default remember the storageKeyPrefix option of the caller and
\* whether Savior built the driver.
NewStorageDriver(kind, storageKeyPrefix, dbg, env, area, option, default) ==
  LET probe == Probe(env, area, IF kind = "local" THEN "__savior_test__"
                                ELSE "__savior_session_test__")
      prefix == IF ToBoolean(storageKeyPrefix) THEN storageKeyPrefix
                ELSE IF kind = "local" THEN Str("savior_draft_")
                ELSE Str("savior_session_draft_")
      threw == probe.caught /\ logWarn(dbg) # "ok"
  IN  [driver |-> IF threw THEN NoDriver
                  ELSE Driver(kind, prefix, dbg, probe.ok, option, default),
       area |-> probe.area, threw |-> threw]

\* `${this.storageKeyPrefix}${formId}`
getStorageKey(driver, formId) == driver.storageKeyPrefix.s \o formId

\* What a driver call did: the area afterwards, the key it used ("" when it
\* did not reach the storage), what it returned, whether it stored or
\* removed the item, whether an error left it.
Called(area, key, result, done, threw) ==
  [area |-> area, key |-> key, result |-> result, done |-> done, threw |-> threw]

\* A mutant of driverSave: every draft is kept under the prefix alone.
driverSaveOneKey(driver, area, formId, draft, setItemThrows) ==
  IF ~driver.isStorageAvailable THEN Called(area, "", LoadedNull, FALSE, FALSE)
  ELSE Called(setItem(area, driver.storageKeyPrefix.s, JSONStringify(draft)),
              driver.storageKeyPrefix.s, LoadedNull, TRUE, FALSE)

\* A mutant of driverSave: the fields of the draft the storage holds under
\* the key are kept where the new draft has none of that name.
driverSaveMerge(driver, area, formId, draft, setItemThrows) ==
  IF ~driver.isStorageAvailable THEN Called(area, "", LoadedNull, FALSE, FALSE)
  ELSE LET key == getStorageKey(driver, formId)
           old == IF NoItem(area, key) \/ ~area[key].json THEN EmptyFields
                  ELSE area[key].v.fields
           merged == [n \in (DOMAIN old) \cup (DOMAIN draft.fields) |->
                        IF n \in DOMAIN draft.fields THEN draft.fields[n]
                        ELSE old[n]]
       IN  IF setItemThrows
           THEN Called(area, key, LoadedNull, FALSE, logWarn(driver.debug) # "ok")
           ELSE Called(setItem(area, key, JSONStringify(Draft(formId, merged))),
                       key, LoadedNull, TRUE, FALSE)

\* driver.save(formId, draft); setItemThrows: the storage refuses the write.
driverSave(driver, area, formId, draft, setItemThrows) ==
  IF ~driver.isStorageAvailable THEN Called(area, "", LoadedNull, FALSE, FALSE)
  ELSE LET key == getStorageKey(driver, formId)
       IN  IF setItemThrows
           THEN Called(area, key, LoadedNull, FALSE, logWarn(driver.debug) # "ok")
           ELSE Called(setItem(area, key, JSONStringify(draft)), key,
                       LoadedNull, TRUE, FALSE)

\* driver.load(formId)
driverLoad(driver, area, formId) ==
  IF ~driver.isStorageAvailable THEN Called(area, "", LoadedNull, FALSE, FALSE)
  ELSE LET key == getStorageKey(driver, formId)
       IN  IF NoItem(area, key) THEN Called(area, key, LoadedNull, TRUE, FALSE)
           ELSE Called(area, key, safeParse(area[key]), TRUE, FALSE)

\* driver.clear(formId)
driverClear(driver, area, formId) ==
  IF ~driver.isStorageAvailable THEN Called(area, "", LoadedNull, FALSE, FALSE)
  ELSE LET key == getStorageKey(driver, formId)
       IN  Called(removeItem(area, key), key, LoadedNull, TRUE, FALSE)

\* The options of a caller: storageKeyPrefix (undefined when not given) and
\* debug.
Options(storageKeyPrefix, dbg) == [storageKeyPrefix |-> storageKeyPrefix, debug |-> dbg]

\* { ...DEFAULT_OPTIONS, ...options }
MergeOptions(options) ==
  [options EXCEPT !.storageKeyPrefix =
     IF @.t = "undefined" THEN DEFAULT_OPTIONS.storageKeyPrefix ELSE @]

\* normalizeInitOptions: a storageKeyPrefix that is no string gives way to
\* the default one.
normalizeInitOptions(userOptions) ==
  LET merged == MergeOptions(userOptions)
  IN  [merged EXCEPT !.storageKeyPrefix =
         IF @.t # "string" THEN DEFAULT_OPTIONS.storageKeyPrefix ELSE @]

\* createDefaultDriver(options) on the localStorage area; option is the
\* storageKeyPrefix the caller gave.
createDefaultDriver(options, env, area, option) ==
  NewStorageDriver("local",
                   NullishCoalesce(options.storageKeyPrefix,
                                   DEFAULT_OPTIONS.storageKeyPrefix),
                   options.debug, env, area, option, TRUE)

(***************************************************************************)
(* The site page (adaptations.js): the swap of the placeholder contact     *)
(* information for the real one.                                           *)
(***************************************************************************)
\* The page: where the ready handler stands (pc: "ready", "absent",
\* "detecting", "bot", "failed", "waiting", "listening"), whether
\* #contact-email, #contact-phone and #contact exist, rect.top of #contact,
\* the ticks left of the post-detection delay, window.realContactInfo,
\* whether the two links show the real information; and of what happened:
\* the writes of the real information, the pc and rect.top at the last
\* write, whether the listener has run since.
ContactPage(pc, hasEmail, hasPhone, hasContact, top) ==
  [pc |-> pc, hasEmail |-> hasEmail, hasPhone |-> hasPhone,
   hasContact |-> hasContact, top |-> top, left |-> 0,
   realContactInfo |-> Undefined, real |-> FALSE,
   writes |-> 0, wrotePc |-> "none", wroteTop |-> 0, after |-> FALSE]

\* A mutant of contactListener: window.realContactInfo is not tested.
contactListenerNoFlagTest(c) ==
  IF ~c.hasContact THEN c
  ELSE IF c.top > InnerHeight + Margin \/ c.top + ContactHeight < -Margin THEN c
  ELSE [c EXCEPT !.realContactInfo = Bool(TRUE), !.real = TRUE,
                 !.writes = IF @ < 2 THEN @ + 1 ELSE @,
                 !.wrotePc = c.pc, !.wroteTop = c.top]

\* The touchstart/scroll listener: it returns when window.realContactInfo is
\* set, when there is no #contact, and when #contact is more than 300px off
\* the viewport; else it sets window.realContactInfo and writes the real
\* email and phone number into #contact-email and #contact-phone.
contactListener(c) ==
  IF ToBoolean(NullishCoalesce(c.realContactInfo, Bool(FALSE)))
  THEN [c EXCEPT !.after = TRUE]
  ELSE IF ~c.hasContact THEN c
  ELSE IF c.top > InnerHeight + Margin \/ c.top + ContactHeight < -Margin THEN c
  ELSE [c EXCEPT !.realContactInfo = Bool(TRUE), !.real = TRUE,
                 !.writes = IF @ < 2 THEN @ + 1 ELSE @,
                 !.wrotePc = c.pc, !.wroteTop = c.top]

(***************************************************************************)
(* State.  Each specification below drives one group of variables and      *)
(* leaves the others at their initial values.                              *)
(***************************************************************************)
VARIABLES
  capElements,   \* capture: the form.elements of the form under capture
  capPhase,      \* capture: "ready", then "captured"
  capResult,     \* capture: what saveForm did (see saveForm)
  capArea,       \* capture: the storage area of the driver saveForm saves to
  capPrev,       \* capture: what the driver held before the last capture
  resElements,   \* restore: the form.elements before restoreForm
  resLoaded,     \* restore: what driver.load does (see Loaded)
  resDebug,      \* restore: the debug option
  resPhase,      \* restore: "ready", then "restored"
  resResult,     \* restore: what restoreForm did (see Restored)
  support,       \* page: what Savior.checkSupport() returns
  debug,         \* page: the debug option given to Savior.init
  forms,         \* page: the forms the selector matches, in document order
  store,         \* page: the driver's draft per form identity (see Loaded)
  pc,            \* page: "start", then "returned" or "threw" (Savior.init)
  initResult,    \* page: what Savior.init returned: "none", "null", "core"
  inputListeners,  \* page: per form, the input/change listeners wired
  submitListeners, \* page: per form, the submit listeners wired
  saveTimeoutId, \* page: per form, scheduleSave's timer handle (0 is null)
  timers,        \* page: the pending timeouts [form, id, left]
  hist,          \* page: what the handlers did so far (see HistInit)
  adElements,    \* adapters: the elements the adapters are applied to
  adValue,       \* adapters: the stored value handed to writeValue
  adAdapters,    \* adapters: the adapter list handed to the registry
  adPhase,       \* adapters: "ready", then the operation that was applied
  adResult,      \* adapters: what the operation did (see AdResult)
  stEnv,         \* storage: "ok", "missing" or "throws" (the storage objects)
  stAreas,       \* storage: the localStorage and the sessionStorage area
  stDriver,      \* storage: the driver under study (see Driver)
  stReg,         \* storage: per identity, the draft last saved and not cleared
  stStale,       \* storage: the identities whose last save was not stored
  stLast,        \* storage: the last call and what it did (see StCall)
  contact        \* site page: the contact-info swap (see ContactPage)

capVars == <<capElements, capPhase, capResult, capArea, capPrev>>

resVars == <<resElements, resLoaded, resDebug, resPhase, resResult>>

pageVars ==
  <<support, debug, forms, store, pc, initResult, inputListeners,
    submitListeners, saveTimeoutId, timers, hist>>

adVars == <<adElements, adValue, adAdapters, adPhase, adResult>>

\* The variables of the specifications of single operations of the library.
stVars == <<stEnv, stAreas, stDriver, stReg, stStale, stLast>>

siteVars == <<contact>>

libVars == <<adVars, stVars, siteVars>>

vars == <<capVars, resVars, pageVars, libVars>>

(***************************************************************************)
(* Forms.  In a document the checked members of one radio group (same      *)
(* form, same name) are at most one.                                       *)
(***************************************************************************)
RadioGroupsExclusive(elements) ==
  \A i, j \in 1..Len(elements) :
    ( /\ i # j
      /\ RadioCanHandle(elements[i]) /\ RadioCanHandle(elements[j])
      /\ elements[i].name # "" /\ elements[i].name = elements[j].name
      /\ elements[i].checked )
    => ~elements[j].checked

\* Sequences over S of length at most n.
SeqUpTo(S, n) == UNION {[1..k -> S] : k \in 0..n}

xyOptions(selX, selY) == <<Opt("x", selX), Opt("y", selY)>>

\* The elements the capture specification builds its forms from.
CaptureCatalog ==
  {TextInput("text", "a", "x"), TextInput("email", "a", ""),
   TextInput("text", "", "x"), TextArea("b", "y")}
  \cup {TextInput("password", n, "p") : n \in {"a", "b"}}
  \cup {Checkbox("a", c) : c \in BOOLEAN}
  \cup {Radio("a", FALSE, "", c) : c \in BOOLEAN}
  \cup {Radio("a", TRUE, v, c) : v \in {"", "x"}, c \in BOOLEAN}
  \cup {SelectOne("b", xyOptions(FALSE, FALSE)), SelectOne("b", xyOptions(FALSE, TRUE))}
  \cup {SelectMultiple("b", xyOptions(FALSE, FALSE)),
        SelectMultiple("b", xyOptions(TRUE, TRUE))}
  \cup {TextInput("number", "a", "1"), TextInput("hidden", "a", "h"),
        OtherElement("button", "submit", "b")}

CaptureForms == {f \in SeqUpTo(CaptureCatalog, MaxElems) : RadioGroupsExclusive(f)}

NoCapture == saveForm(<< >>, "")

(***************************************************************************)
(* The page: forms, the storage driver, Savior.init.                       *)
(***************************************************************************)
Form(dataSavior, id, elements) ==
  [dataSavior |-> dataSavior, id |-> id, elements |-> elements]

\* getFormId: data-savior, else id, else null ("" stands for null).
getFormId(form) ==
  IF form.dataSavior # "" THEN form.dataSavior
  ELSE IF form.id # "" THEN form.id
  ELSE ""

\* The text values a user types into the page's text field.
Typed == {"", "x"}

\* The forms of the page: form k may carry data-savior "s<k>", id "i<k>",
\* and lists no element or one text input.
MarkerOf(k) == IF k = 1 THEN "s1" ELSE IF k = 2 THEN "s2" ELSE "s3"

IdOf(k) == IF k = 1 THEN "i1" ELSE IF k = 2 THEN "i2" ELSE "i3"

PageFormsAt(k) ==
  {Form(a[1], a[2], els) :
     a \in {<<"", "">>, <<"", IdOf(k)>>, <<MarkerOf(k), IdOf(k)>>},
     els \in {<< >>, <<TextInput("text", "a", "")>>}}

FormIds == {MarkerOf(k) : k \in 1..NForms} \cup {IdOf(k) : k \in 1..NForms}

\* What the storage holds for an identity when the page loads: nothing, a
\* draft, or a payload whose fields is a string.
StoredAtLoad ==
  {LoadNull,
   LoadObject(FieldsObject([n \in {"a"} |-> Str("x")])),
   LoadObject(Prop(Str("junk"), EmptyFields))}

\* What a saved draft loads as: JSON keeps the own keys of fields.
StoredDraft(draft) == LoadObject(FieldsObject(draft.fields))

(***************************************************************************)
(* The history the properties read.  loadCalls: per form, the calls of     *)
(* driver.load.  Of one form, watch: age, the ticks since the last         *)
(* input/change event it heard (-1: none yet; counted up to the delay plus *)
(* one); burstLen, the events of the current burst; savesSinceEvent, the   *)
(* calls of driver.save since that event; lastSaveLag, the age at the last *)
(* call of driver.save (-1: none); lastSaved, the fields of the draft      *)
(* passed to that call.  Of the last submit, as long as no                 *)
(* input/change event on its form has followed: the form, the identities   *)
(* passed to driver.clear, whether a timeout was pending, whether          *)
(* driver.clear returned.  Of the last driver call that threw: the         *)
(* operation and whether an error left the handler.  driverCalled: whether *)
(* any driver method was called.                                           *)
(* A history with watch = 0 follows no form's bursts and records the       *)
(* submits and the faults; one with watch = k follows form k's bursts and  *)
(* records neither.                                                        *)
(***************************************************************************)
NoSubmit == [form |-> 0, clears |-> << >>, pending |-> FALSE, cleared |-> FALSE]

NoFault == [op |-> "none", escaped |-> FALSE]

Hist(watch) ==
  [loadCalls |-> [k \in 1..NForms |-> 0],
   watch |-> watch,
   age |-> -1,
   burstLen |-> 0,
   savesSinceEvent |-> 0,
   lastSaveLag |-> -1,
   lastSaved |-> EmptyFields,
   submit |-> NoSubmit,
   fault |-> NoFault,
   driverCalled |-> FALSE]

CapIdle ==
  /\ capElements = << >> /\ capPhase = "idle" /\ capResult = NoCapture
  /\ capArea = EmptyArea /\ capPrev = LoadedNull

ResIdle ==
  /\ resElements = << >> /\ resLoaded = LoadNull /\ resDebug = FALSE
  /\ resPhase = "idle" /\ resResult = Restored(<< >>, "none", {}, 0)

\* What an operation on adapters leaves: per element the adapters that
\* recognized it and the value read from it, the elements afterwards,
\* whether an error left the operation, the adapter the registry resolved.
AdResult(recognizers, reads, elements, threw, resolved) ==
  [recognizers |-> recognizers, reads |-> reads, elements |-> elements,
   threw |-> threw, resolved |-> resolved]

NoAdResult == AdResult(<< >>, << >>, << >>, FALSE, "none")

AdIdle ==
  /\ adElements = << >> /\ adValue = Undefined /\ adAdapters = << >>
  /\ adPhase = "idle" /\ adResult = NoAdResult

\* The identities the storage specifications save drafts under.
StorageIds == {"f", "g"}

\* A call on a driver or on Savior: the operation, the identity, the
\* storageKeyPrefix option behind the driver used, whether Savior built that
\* driver, the storage key used ("" if the storage was not reached), what
\* was returned, whether a storage area differs afterwards, whether an
\* error left the call.
StCall(op, id, option, default, key, result, changed, threw) ==
  [op |-> op, id |-> id, option |-> option, default |-> default, key |-> key,
   result |-> result, changed |-> changed, threw |-> threw]

NoStCall == StCall("none", "", Undefined, FALSE, "", LoadedNull, FALSE, FALSE)

StIdle ==
  /\ stEnv = "idle"
  /\ stAreas = [local |-> EmptyArea, session |-> EmptyArea]
  /\ stDriver = NoDriver
  /\ stReg = [id \in StorageIds |-> LoadedNull]
  /\ stStale = {}
  /\ stLast = NoStCall

ContactIdle == contact = ContactPage("idle", FALSE, FALSE, FALSE, 0)

LibIdle == AdIdle /\ StIdle /\ ContactIdle

PageIdle ==
  /\ support = FALSE /\ debug = FALSE /\ forms = << >>
  /\ store = [id \in FormIds |-> LoadNull]
  /\ pc = "idle" /\ initResult = "none"
  /\ inputListeners = [k \in 1..NForms |-> 0]
  /\ submitListeners = [k \in 1..NForms |-> 0]
  /\ saveTimeoutId = [k \in 1..NForms |-> 0]
  /\ timers = {} /\ hist = Hist(1)

PageInit ==
  /\ support \in BOOLEAN
  /\ debug \in BOOLEAN
  /\ forms \in {f \in [1..NForms -> UNION {PageFormsAt(k) : k \in 1..NForms}] :
                  \A k \in 1..NForms : f[k] \in PageFormsAt(k)}
  /\ \E d \in StoredAtLoad : store = [id \in FormIds |-> d]
  /\ pc = "start" /\ initResult = "none"
  /\ inputListeners = [k \in 1..NForms |-> 0]
  /\ submitListeners = [k \in 1..NForms |-> 0]
  /\ saveTimeoutId = [k \in 1..NForms |-> 0]
  /\ timers = {}
  /\ hist = Hist(0)
  /\ CapIdle /\ ResIdle /\ LibIdle

\* The pages of the debounce specification: storage is supported and
\* empty, and the history follows one form.
DebounceInit ==
  /\ support = TRUE
  /\ debug \in BOOLEAN
  /\ forms \in {f \in [1..NForms -> UNION {PageFormsAt(k) : k \in 1..NForms}] :
                  \A k \in 1..NForms : f[k] \in PageFormsAt(k)}
  /\ store = [id \in FormIds |-> LoadNull]
  /\ pc = "start" /\ initResult = "none"
  /\ inputListeners = [k \in 1..NForms |-> 0]
  /\ submitListeners = [k \in 1..NForms |-> 0]
  /\ saveTimeoutId = [k \in 1..NForms |-> 0]
  /\ timers = {}
  /\ \E w \in 1..NForms : hist = Hist(w)
  /\ CapIdle /\ ResIdle /\ LibIdle

RECURSIVE SumTo(_, _)
\* f[1] + ... + f[n]
SumTo(f, n) == IF n = 0 THEN 0 ELSE f[n] + SumTo(f, n - 1)

\* The state SaviorCore.init works on while it goes through the forms.
Attaching(fs, inL, subL, loads, fault, threw) ==
  [forms |-> fs, inputListeners |-> inL, submitListeners |-> subL,
   loadCalls |-> loads, fault |-> fault, threw |-> threw]

\* A mutant of attachToForm: the listeners are wired without a restore.
attachToFormNoRestore(a, k, loadThrows, st, dbg) ==
  IF getFormId(a.forms[k]) = "" THEN a
  ELSE [a EXCEPT !.inputListeners[k] = @ + 1, !.submitListeners[k] = @ + 1]

\* attachToForm on form k: a form without identity is reported and skipped;
\* otherwise restoreForm, wireInputEvents, wireSubmitEvent.  An error that
\* leaves logWarn or restoreForm leaves attachToForm at that point.
attachToForm(a, k, loadThrows, st, dbg) ==
  LET formId == getFormId(a.forms[k])
  IN  IF formId = ""
      THEN IF logWarn(dbg) = "ok" THEN a ELSE [a EXCEPT !.threw = logWarn(dbg)]
      ELSE LET loaded == IF loadThrows THEN LoadThrows ELSE st[formId]
               r == restoreForm(a.forms[k].elements, loaded, dbg)
               b == [a EXCEPT
                       !.forms[k].elements = r.elements,
                       !.loadCalls[k] = @ + r.loadCalls,
                       !.fault = IF loadThrows
                                 THEN [op |-> "load", escaped |-> r.threw # "none"]
                                 ELSE @]
           IN  IF r.threw # "none" THEN [b EXCEPT !.threw = r.threw]
               ELSE [b EXCEPT !.inputListeners[k] = @ + 1,
                              !.submitListeners[k] = @ + 1]

RECURSIVE forEachForm(_, _, _, _, _)
\* forms.forEach(attachToForm) from form k on; an error ends the iteration.
forEachForm(a, k, loadFaults, st, dbg) ==
  IF k > Len(a.forms) \/ a.threw # "none" THEN a
  ELSE forEachForm(attachToForm(a, k, loadFaults[k], st, dbg),
                   k + 1, loadFaults, st, dbg)

\* Savior.init(options): without storage support it warns when debug is on
\* and returns null; otherwise it builds the core and runs core.init().
\* loadFaults tells for which forms driver.load throws.
SaviorInit ==
  /\ pc = "start"
  /\ IF ~support
     THEN /\ pc' = IF debug /\ warn # "ok" THEN "threw" ELSE "returned"
          /\ initResult' = IF debug /\ warn # "ok" THEN "none" ELSE "null"
          /\ UNCHANGED <<forms, inputListeners, submitListeners, hist>>
     ELSE \E loadFaults \in [1..NForms -> BOOLEAN] :
            LET a == forEachForm(
                       Attaching(forms, inputListeners, submitListeners,
                                 hist.loadCalls, hist.fault, "none"),
                       1, loadFaults, store, debug)
            IN  /\ \A k \in 1..NForms : loadFaults[k] => a.loadCalls[k] > 0
                /\ pc' = IF a.threw = "none" THEN "returned" ELSE "threw"
                /\ initResult' = IF a.threw = "none" THEN "core" ELSE "none"
                /\ forms' = a.forms
                /\ inputListeners' = a.inputListeners
                /\ submitListeners' = a.submitListeners
                /\ hist' = [hist EXCEPT !.loadCalls = a.loadCalls,
                                        !.fault = a.fault,
                                        !.driverCalled = SumTo(a.loadCalls, NForms) > 0]
  /\ UNCHANGED <<support, debug, store, saveTimeoutId, timers, capVars, resVars, libVars>>

(***************************************************************************)
(* Events of the page after Savior.init: input/change, the debounce        *)
(* timeout, submit, the passing of time.  A timeout carries the ticks left *)
(* until it is due; it fires when none is left, before time passes and     *)
(* before another event is handled.                                        *)
(***************************************************************************)
TimerDue == \E t \in timers : t.left = 0

PendingFor(k) == {t \in timers : t.form = k}

\* The handle setTimeout returns: a number it has not returned before, here
\* the least one that no pending timeout has and no form's handle holds.
FreshId(tm, handles) ==
  LET used == {t.id : t \in tm} \cup {handles[k] : k \in DOMAIN handles}
  IN  CHOOSE i \in 1..(Cardinality(used) + 1) : i \notin used

\* A mutant of scheduleSave: the pending timeout is not cleared.
scheduleSaveNoClear(k, tm, handles) ==
  LET id == FreshId(tm, handles)
  IN  [timers |-> tm \cup {[form |-> k, id |-> id, left |-> SaveDelayTicks]},
       handle |-> id]

\* A mutant of scheduleSave: one handle for all the forms, so that the
\* pending timeout of any form is cleared.
scheduleSaveSharedHandle(k, tm, handles) ==
  LET id == FreshId({}, [handles EXCEPT ![k] = 0])
  IN  [timers |-> {[form |-> k, id |-> id, left |-> SaveDelayTicks]},
       handle |-> id]

\* A mutant of scheduleSave: the pending timeout is cleared and none is set.
scheduleSaveNoTimeout(k, tm, handles) ==
  [timers |-> IF handles[k] # 0 THEN {t \in tm : t.id # handles[k]} ELSE tm,
   handle |-> 0]

\* scheduleSave of form k: clearTimeout of the handle held, if any, then
\* setTimeout(..., saveDelayMs).
scheduleSave(k, tm, handles) ==
  LET cleared == IF handles[k] # 0 THEN {t \in tm : t.id # handles[k]} ELSE tm
      id == FreshId(cleared, [handles EXCEPT ![k] = 0])
  IN  [timers |-> cleared \cup
                    {[form |-> k, id |-> id, left |-> SaveDelayTicks]},
       handle |-> id]

\* An input or change event on form k, after the user set the form's text
\* field (if it has one) to v.  It runs scheduleSave if the form is wired.
InputEvent(k, v) ==
  /\ pc \in {"returned", "threw"}
  /\ ~TimerDue
  /\ forms' = [forms EXCEPT ![k].elements =
                 [i \in 1..Len(@) |-> [@[i] EXCEPT !.value = v]]]
  /\ IF inputListeners[k] = 0
     THEN UNCHANGED <<timers, saveTimeoutId, hist>>
     ELSE LET s == scheduleSave(k, timers, saveTimeoutId)
              inBurst == hist.age >= 0 /\ hist.age < SaveDelayTicks
          IN  /\ timers' = s.timers
              /\ saveTimeoutId' = [saveTimeoutId EXCEPT ![k] = s.handle]
              /\ hist' = IF k # hist.watch
                         THEN [hist EXCEPT
                                 !.submit = IF @.form = k THEN NoSubmit ELSE @]
                         ELSE [hist EXCEPT
                                 !.age = 0,
                                 !.burstLen =
                                    IF ~inBurst THEN 1
                                    ELSE IF @ < MaxBurst THEN @ + 1 ELSE @,
                                 !.savesSinceEvent = 0]
  /\ UNCHANGED <<support, debug, store, pc, initResult, inputListeners,
                 submitListeners, capVars, resVars, libVars>>

\* The timeout callback of form k: saveForm, then saveTimeoutId = null.
\* driver.save may throw; saveForm catches it and calls logWarn, whose own
\* error leaves the callback before the handle is reset.
TimerFires(t, saveThrows) ==
  /\ t \in timers /\ t.left = 0
  /\ LET k == t.form
         formId == getFormId(forms[k])
         r == saveForm(forms[k].elements, formId)
         threw == r.called /\ saveThrows
         escaped == threw /\ logWarn(debug) # "ok"
         watched == k = hist.watch
     IN  /\ saveThrows => r.called
         /\ timers' = timers \ {t}
         /\ store' = IF r.called /\ ~threw
                     THEN [store EXCEPT ![formId] = StoredDraft(r)]
                     ELSE store
         /\ saveTimeoutId' = IF escaped THEN saveTimeoutId
                             ELSE [saveTimeoutId EXCEPT ![k] = 0]
         /\ hist' = [hist EXCEPT
                       !.savesSinceEvent = IF watched /\ r.called THEN @ + 1 ELSE @,
                       !.lastSaveLag = IF watched /\ r.called THEN hist.age ELSE @,
                       !.lastSaved = IF watched /\ r.called THEN r.fields ELSE @,
                       !.fault = IF threw /\ hist.watch = 0
                                 THEN [op |-> "save", escaped |-> escaped]
                                 ELSE @,
                       !.driverCalled = @ \/ r.called]
  /\ UNCHANGED <<support, debug, forms, pc, initResult, inputListeners,
                 submitListeners, capVars, resVars, libVars>>

\* A mutant of submitListener: no clear while a capture is pending.
submitListenerUnlessPending(formId, pending) ==
  IF pending THEN << >> ELSE <<formId>>

\* The submit listener wireSubmitEvent adds: the identities it passes to
\* driver.clear.
submitListener(formId, pending) == <<formId>>

\* A submit event on form k: the submit listener, if wired, calls
\* driver.clear, which may throw; the listener catches it and calls logWarn.
SubmitEvent(k, clearThrows) ==
  /\ pc \in {"returned", "threw"}
  /\ ~TimerDue
  /\ LET formId == getFormId(forms[k])
         clears == IF submitListeners[k] = 0 THEN << >>
                   ELSE submitListener(formId, PendingFor(k) # {})
         threw == clears # << >> /\ clearThrows
     IN  /\ clearThrows => clears # << >>
         /\ store' = IF clears # << >> /\ ~threw
                     THEN [store EXCEPT ![clears[1]] = LoadNull]
                     ELSE store
         /\ hist' = [hist EXCEPT
                       !.submit = IF hist.watch # 0 THEN @
                                  ELSE [form |-> k, clears |-> clears,
                                        pending |-> PendingFor(k) # {},
                                        cleared |-> clears # << >> /\ ~threw],
                       !.fault = IF threw /\ hist.watch = 0
                                 THEN [op |-> "clear",
                                       escaped |-> logWarn(debug) # "ok"]
                                 ELSE @,
                       !.driverCalled = @ \/ clears # << >>]
  /\ UNCHANGED <<support, debug, forms, pc, initResult, inputListeners,
                 submitListeners, saveTimeoutId, timers, capVars, resVars, libVars>>

\* One tick passes, once no timeout is due.
Tick ==
  /\ pc \in {"returned", "threw"}
  /\ ~TimerDue
  /\ timers # {} \/ (hist.age >= 0 /\ hist.age <= SaveDelayTicks)
  /\ timers' = {[t EXCEPT !.left = @ - 1] : t \in timers}
  /\ hist' = [hist EXCEPT
                !.age = IF @ >= 0 /\ @ <= SaveDelayTicks THEN @ + 1 ELSE @]
  /\ UNCHANGED <<support, debug, forms, store, pc, initResult, inputListeners,
                 submitListeners, saveTimeoutId, capVars, resVars, libVars>>

Next ==
  \/ SaviorInit
  \/ \E k \in 1..NForms, v \in Typed : InputEvent(k, v)
  \/ \E t \in timers, saveThrows \in BOOLEAN : TimerFires(t, saveThrows)
  \/ \E k \in 1..NForms, clearThrows \in BOOLEAN : SubmitEvent(k, clearThrows)
  \/ Tick

Spec == PageInit /\ [][Next]_vars

SpecDebounce == DebounceInit /\ [][Next]_vars

\* The page while it stays loaded: time passes, and a timeout that is due
\* runs its callback.
SpecLoaded ==
  /\ DebounceInit /\ [][Next]_vars
  /\ WF_vars(Tick)
  /\ WF_vars(\E t \in timers, saveThrows \in BOOLEAN : TimerFires(t, saveThrows))


(***************************************************************************)
(* Properties of the page (Spec, SpecDebounce).                            *)
(***************************************************************************)
InitRan == pc \in {"returned", "threw"}

\* The saves the burst of the watched form has had, given the ticks since
\* its last event: none before the delay has passed, one from then on.
OneSaveAfterDelay ==
  /\ hist.age < SaveDelayTicks => hist.savesSinceEvent = 0
  /\ hist.age = SaveDelayTicks =>
       hist.savesSinceEvent = IF PendingFor(hist.watch) # {} THEN 0 ELSE 1
  /\ hist.age > SaveDelayTicks => hist.savesSinceEvent = 1
  /\ hist.lastSaveLag \in {-1, SaveDelayTicks}

\* C1 as stated. Debounce: for an attached form, a burst of input/change
\* events, each less than the delay after the one before, gets exactly one
\* driver.save call, the delay after the last event of the burst.
DebounceOneSave ==
  (InitRan /\ hist.watch # 0 /\ inputListeners[hist.watch] > 0 /\ hist.age >= 0)
     => OneSaveAfterDelay

\* C1 amended. Debounce, for an attached form that lists at least one
\* element: a burst gets exactly one driver.save call, the delay after the
\* last event of the burst.
DebounceOneSaveWithElements ==
  ( /\ InitRan /\ hist.watch # 0 /\ inputListeners[hist.watch] > 0
    /\ hist.age >= 0
    /\ Len(forms[hist.watch].elements) > 0 )
     => OneSaveAfterDelay

\* C1 witness: a burst of two events or more on a form with an element was
\* saved once, the delay after its last event, with another form wired too.
BurstSavedOnce ==
  /\ hist.watch # 0 /\ inputListeners[hist.watch] > 0
  /\ Len(forms[hist.watch].elements) > 0
  /\ hist.burstLen >= 2
  /\ hist.age = SaveDelayTicks
  /\ hist.savesSinceEvent = 1 /\ hist.lastSaveLag = SaveDelayTicks
  /\ \E k \in 1..NForms : k # hist.watch /\ inputListeners[k] > 0

\* C2. A submit event on an attached form makes exactly one driver.clear
\* call, for that form's identity, with or without a pending timeout.
SubmitClearsOnce ==
  (hist.submit.form # 0 /\ submitListeners[hist.submit.form] > 0) =>
     hist.submit.clears = <<getFormId(forms[hist.submit.form])>>

\* C2 witness: a submit on an attached form while its timeout was pending
\* made one driver.clear call.
SubmitWhilePendingCleared ==
  /\ hist.submit.form # 0
  /\ submitListeners[hist.submit.form] > 0
  /\ hist.submit.pending
  /\ Len(hist.submit.clears) = 1

\* C3. Storage fault isolation: an exception thrown by driver.load,
\* driver.save or driver.clear never leaves the handler that made the call,
\* with debug off or on.
StorageFaultsIsolated == hist.fault.op # "none" => ~hist.fault.escaped

\* C9. Attachment isolation: after init every form with an identity is
\* attached (restore performed, input/change and submit listeners wired),
\* and every form without one has no driver call and no listener.
AttachmentIsolated ==
  (InitRan /\ support) =>
     \A k \in 1..NForms :
        IF getFormId(forms[k]) # ""
        THEN /\ hist.loadCalls[k] = 1
             /\ inputListeners[k] = 1 /\ submitListeners[k] = 1
        ELSE /\ hist.loadCalls[k] = 0
             /\ inputListeners[k] = 0 /\ submitListeners[k] = 0

\* C10. Environment gate: when checkSupport() is false, Savior.init does
\* not throw, returns null, wires no listener and calls no driver method.
EnvironmentGate ==
  (~support /\ pc \notin {"start", "idle"}) =>
     /\ pc = "returned" /\ initResult = "null"
     /\ \A k \in 1..NForms : inputListeners[k] = 0 /\ submitListeners[k] = 0
     /\ ~hist.driverCalled
     /\ timers = {}

\* C18. Single pending capture: every form has at most one pending timeout
\* at any time, and an input or change event on a wired form leaves the form
\* with exactly one pending timeout, due a full delay later, whether or not
\* one was pending before (which is then cancelled and never runs), and
\* leaves the timeouts of the other forms alone.
SinglePendingCapture ==
  /\ [](\A k \in 1..NForms : Cardinality(PendingFor(k)) <= 1)
  /\ [][\A k \in 1..NForms, v \in Typed :
          (InputEvent(k, v) /\ inputListeners[k] > 0) =>
             /\ \E t \in timers' :
                   /\ t.form = k /\ t.left = SaveDelayTicks
                   /\ {u \in timers' : u.form = k} = {t}
                   /\ saveTimeoutId'[k] = t.id
             /\ {u \in timers' : u.form # k} = {u \in timers : u.form # k}]_vars

\* C18 witness: a second event of a burst arrived while the form's timeout
\* was pending, and the form has one pending timeout, due a full delay later.
PendingTimeoutReplaced ==
  /\ hist.watch # 0 /\ inputListeners[hist.watch] > 0
  /\ hist.burstLen >= 2 /\ hist.age = 0
  /\ \E t \in timers :
        PendingFor(hist.watch) = {t} /\ t.left = SaveDelayTicks

\* What the page holds for form j: its pending timeouts, its timer handle
\* and the draft stored for its identity.
OwnedBy(j, tm, handles, st) ==
  <<{t \in tm : t.form = j}, handles[j], st[getFormId(forms[j])]>>

\* C21. Form independence: for two attached forms with distinct identities,
\* an input/change event, a submit event or a timeout callback of one form
\* leaves the other form's pending timeout (its due time included), its
\* timer handle and the draft stored for its identity as they were.
FormsIndependent ==
  [][\A k, j \in 1..NForms :
       ( /\ k # j
         /\ inputListeners[k] > 0 /\ inputListeners[j] > 0
         /\ getFormId(forms[k]) # getFormId(forms[j])
         /\ \/ \E v \in Typed : InputEvent(k, v)
            \/ \E clearThrows \in BOOLEAN : SubmitEvent(k, clearThrows)
            \/ \E t \in PendingFor(k), saveThrows \in BOOLEAN :
                  TimerFires(t, saveThrows) )
       => OwnedBy(j, timers', saveTimeoutId', store')
            = OwnedBy(j, timers, saveTimeoutId, store)]_vars

\* C21 witness: two attached forms, one with a stored draft and a timeout
\* part of its delay old, the other with a timeout just set by an event.
EventBesidePendingCapture ==
  \E k, j \in 1..NForms :
     /\ k # j /\ inputListeners[k] > 0 /\ inputListeners[j] > 0
     /\ \E t \in PendingFor(k) : t.left = SaveDelayTicks
     /\ \E u \in PendingFor(j) : u.left < SaveDelayTicks /\ u.left > 0
     /\ store[getFormId(forms[j])] # LoadNull

\* C22. Draft stays cleared after submit: after a submit on an attached form
\* whose driver.clear returned, and as long as no input or change event on
\* that form has followed, the driver holds no draft for the form's
\* identity, also when a timeout was pending at the submit.
DraftStaysCleared ==
  (hist.submit.form # 0 /\ hist.submit.cleared) =>
     store[getFormId(forms[hist.submit.form])] = LoadNull

\* The watched form is attached and has just had an input or change event.
EventHeard ==
  /\ hist.watch # 0 /\ inputListeners[hist.watch] > 0
  /\ hist.age = 0 /\ hist.savesSinceEvent = 0

\* driver.save has been called for the watched form since its last event,
\* with the draft of the form's present state.
SavedSinceEvent ==
  /\ hist.watch # 0
  /\ hist.savesSinceEvent >= 1
  /\ hist.lastSaved
       = saveForm(forms[hist.watch].elements, getFormId(forms[hist.watch])).fields

\* C23 as stated. Eventual save: while the page stays loaded, every input or
\* change event on an attached form is eventually followed by a driver.save
\* call for the form with a draft of the form's state at or after the event.
EventuallySaved == EventHeard ~> SavedSinceEvent

\* C23 amended. Eventual save, for an attached form that lists at least one
\* element whose input/change events come to an end: every such event is
\* eventually followed by a driver.save call with a draft of the form's
\* state at or after the event.
EventuallySavedOnceQuiet ==
  <>[](hist.age # 0) =>
     ((EventHeard /\ Len(forms[hist.watch].elements) > 0) ~> SavedSinceEvent)

\* C23 witness: the delay after the last event of a burst on a form with an
\* element, driver.save has been called with the text typed last.
LastTypedSaved ==
  /\ SavedSinceEvent /\ inputListeners[hist.watch] > 0
  /\ hist.burstLen >= 2
  /\ hist.lastSaved = [n \in {"a"} |-> Str("x")]

\* C20. Attach ordering: driver.load has been called exactly once for every
\* attached form; it is called during Savior.init only, and the step of
\* Savior.init stores nothing, clears nothing and schedules no capture; a
\* driver.save or driver.clear is issued only after init, for a form whose
\* load has been made.
AttachOrdering ==
  /\ [](InitRan =>
          \A k \in 1..NForms :
             (inputListeners[k] > 0 \/ submitListeners[k] > 0)
                => hist.loadCalls[k] = 1)
  /\ [][/\ hist'.loadCalls # hist.loadCalls => pc = "start"
        /\ pc = "start" => (store' = store /\ timers' = {} /\ timers = {}
                              /\ hist'.submit = hist.submit)
        /\ \A t \in timers, saveThrows \in BOOLEAN :
              (TimerFires(t, saveThrows)
                 /\ saveForm(forms[t.form].elements, "").called)
                 => (InitRan /\ hist.loadCalls[t.form] = 1)
        /\ \A k \in 1..NForms, clearThrows \in BOOLEAN :
              (SubmitEvent(k, clearThrows) /\ hist'.submit.clears # << >>)
                 => (InitRan /\ hist.loadCalls[k] = 1)]_vars

\* C20 witness: a form that was restored from a stored draft at attach time,
\* with one call of driver.load, has since had a capture saved: the driver
\* holds the empty text typed into its field.
SavedAfterOneLoad ==
  \E k \in 1..NForms :
     /\ InitRan /\ inputListeners[k] = 1
     /\ hist.loadCalls[k] = 1
     /\ store[getFormId(forms[k])]
           = LoadObject(FieldsObject([n \in {"a"} |-> Str("")]))


(***************************************************************************)
(* SpecCapture: saveForm applied to every form of CaptureForms.            *)
(***************************************************************************)
CapInit ==
  /\ capElements \in CaptureForms
  /\ capPhase = "ready"
  /\ capResult = NoCapture
  /\ capArea = EmptyArea /\ capPrev = LoadedNull
  /\ ResIdle
  /\ PageIdle
  /\ LibIdle

Capture ==
  /\ capPhase = "ready"
  /\ capPhase' = "captured"
  /\ capResult' = saveForm(capElements, "f")
  /\ UNCHANGED <<capElements, capArea, capPrev, resVars, pageVars, libVars>>

CapNext == Capture

SpecCapture == CapInit /\ [][CapNext]_vars

(***************************************************************************)
(* Properties of capture (SpecCapture).                                    *)
(***************************************************************************)
\* The element takes part in a capture: named, not a password, recognized.
Captured(el) ==
  /\ el.name # ""
  /\ el.type # "password"
  /\ getFieldAdapterForElement(el, defaultAdapters) # "none"

\* What the element's adapter reads (of an element that takes part).
ReadOf(el) == ReadValue(getFieldAdapterForElement(el, defaultAdapters), el)

\* Indices of the elements that take part under name n with a value to save.
Contributors(elements, n) ==
  {i \in 1..Len(elements) :
     /\ elements[i].name = n
     /\ Captured(elements[i])
     /\ ReadOf(elements[i]) # Undefined}

Last(S) == CHOOSE i \in S : \A j \in S : j <= i

\* C5. Absent-value omission: a draft passed to driver.save has no key whose
\* value is undefined; its keys are exactly the names with at least one
\* element that read a value, and each key holds the value of the last such
\* element, so an element that read absent neither overwrote nor deleted it.
AbsentValueOmitted ==
  (capPhase = "captured" /\ capResult.called) =>
     LET fields == capResult.fields
     IN  /\ \A n \in DOMAIN fields : fields[n].t # "undefined"
         /\ DOMAIN fields =
              {capElements[i].name : i \in
                 {k \in 1..Len(capElements) :
                    Contributors(capElements, capElements[k].name) # {}}}
         /\ \A n \in DOMAIN fields :
              fields[n] = ReadOf(capElements[Last(Contributors(capElements, n))])

\* C5 witness: a capture in which an element that reads absent follows an
\* element of the same name that read a value, and the key kept that value.
AbsentAfterValueCaptured ==
  /\ capPhase = "captured" /\ capResult.called
  /\ \E i, j \in 1..Len(capElements) :
       /\ i < j
       /\ capElements[i].name = capElements[j].name
       /\ i \in Contributors(capElements, capElements[i].name)
       /\ Captured(capElements[j]) /\ ReadOf(capElements[j]) = Undefined
       /\ \A k \in 1..Len(capElements) : k > j => capElements[k].name = ""
       /\ capResult.fields[capElements[i].name] = ReadOf(capElements[i])

\* C6. Secret-field exclusion: every key of a captured draft holds the value
\* read from an element of that name that is not of type password; a name
\* carried only by password elements is no key.
SecretFieldsExcluded ==
  (capPhase = "captured" /\ capResult.called) =>
     \A n \in DOMAIN capResult.fields :
        \E i \in 1..Len(capElements) :
           /\ capElements[i].name = n
           /\ capElements[i].type # "password"
           /\ Captured(capElements[i])
           /\ capResult.fields[n] = ReadOf(capElements[i])

\* C6 witness: a capture of a form that has a password named "b" and no other
\* element of that name, and an element that was captured under another name.
PasswordOnlyNameCaptured ==
  /\ capPhase = "captured" /\ capResult.called
  /\ \E i \in 1..Len(capElements) :
       capElements[i].type = "password" /\ capElements[i].name = "b"
  /\ \A i \in 1..Len(capElements) :
       capElements[i].name = "b" => capElements[i].type = "password"
  /\ "b" \notin DOMAIN capResult.fields
  /\ "a" \in DOMAIN capResult.fields

\* Name n is carried by radio buttons only, exactly one of them checked.
RadioGroupOneChecked(elements, n) ==
  /\ \A i \in 1..Len(elements) :
       elements[i].name = n => RadioCanHandle(elements[i])
  /\ Cardinality({i \in 1..Len(elements) :
                    elements[i].name = n /\ elements[i].checked}) = 1

CheckedOf(elements, n) ==
  elements[CHOOSE i \in 1..Len(elements) :
             elements[i].name = n /\ elements[i].checked]

\* C7 as stated. Radio group: the draft has one entry for the group's name,
\* the checked member's value, or "on" if that value is empty (no value
\* attribute, or an empty one).
RadioGroupValueOrOn ==
  (capPhase = "captured" /\ RadioGroupOneChecked(capElements, "a")) =>
     LET el == CheckedOf(capElements, "a")
     IN  /\ capResult.called
         /\ "a" \in DOMAIN capResult.fields
         /\ capResult.fields["a"] =
              Str(IF ~el.hasValueAttr \/ el.value = "" THEN "on" ELSE el.value)

\* C7 amended. Radio group: the draft has one entry for the group's name,
\* the checked member's value as the DOM reports it: its value attribute,
\* also when that is the empty string, and "on" only without the attribute.
RadioGroupValue ==
  (capPhase = "captured" /\ RadioGroupOneChecked(capElements, "a")) =>
     LET el == CheckedOf(capElements, "a")
     IN  /\ capResult.called
         /\ "a" \in DOMAIN capResult.fields
         /\ capResult.fields["a"] =
              Str(IF el.hasValueAttr THEN el.value ELSE "on")

\* C7 witness: three radio buttons named "a", the first one checked and
\* followed by two unchecked ones, captured under its value.
RadioGroupOfThreeCaptured ==
  /\ capPhase = "captured"
  /\ Len(capElements) = 3
  /\ RadioGroupOneChecked(capElements, "a")
  /\ \A i \in 1..3 : capElements[i].name = "a"
  /\ capElements[1].checked /\ capElements[1].hasValueAttr
  /\ capElements[1].value = "x" /\ capElements[3].value = ""
  /\ capResult.fields["a"] = Str("x")

(***************************************************************************)
(* SpecRecapture: saveForm applied again and again to one form, with the   *)
(* default driver on a usable localStorage, while the form's controls are  *)
(* edited between the captures.                                            *)
(***************************************************************************)
\* The states of the controls of the form: a text input that a script may
\* turn into a password input and back, a checkbox, two radio buttons of a
\* group, an unnamed input and a button.
RecaptureCatalog ==
  {TextInput(t, "a", v) : t \in {"text", "password"}, v \in {"", "x"}}
  \cup {Checkbox("a", c) : c \in BOOLEAN}
  \cup {Radio("b", TRUE, v, c) : v \in {"x", "y"}, c \in BOOLEAN}
  \cup {TextInput("text", "", "x"), OtherElement("button", "submit", "b")}

RecaptureForms ==
  {f \in SeqUpTo(RecaptureCatalog, MaxRecapture) : RadioGroupsExclusive(f)}

\* The driver Savior.init builds when no driver and no prefix is given.
CaptureDriver ==
  createDefaultDriver(normalizeInitOptions(Options(Undefined, FALSE)),
                      "ok", EmptyArea, Undefined).driver

\* The area when the page loads: empty, or holding a draft of the form.
RecaptureAreas ==
  {EmptyArea,
   driverSave(CaptureDriver, EmptyArea, "f",
              Draft("f", [n \in {"a", "b"} |-> Str("x")]), FALSE).area}

\* b is a state of the control a: the same tag, name, value attribute and
\* options; the type as it was, or text for password and back.
SameControl(a, b) ==
  /\ a.tag = b.tag /\ a.name = b.name
  /\ a.type = b.type \/ {a.type, b.type} = {"text", "password"}
  /\ a.type = "radio" => a.value = b.value

RecaptureInit ==
  /\ capElements \in RecaptureForms
  /\ capPhase = "ready"
  /\ capResult = NoCapture
  /\ capArea \in RecaptureAreas
  /\ capPrev = LoadedNull
  /\ ResIdle /\ PageIdle /\ LibIdle

\* saveForm(form, "f") as a whole: the draft is built and, unless the form
\* lists no element, passed to driver.save; an error of setItem stays in
\* the driver.
Recapture(setItemThrows) ==
  /\ capPhase = "ready"
  /\ LET r == saveForm(capElements, "f")
         saved == driverSave(CaptureDriver, capArea, "f",
                             Draft("f", r.fields), setItemThrows)
     IN  /\ setItemThrows => r.called
         /\ capResult' = r
         /\ capPrev' = driverLoad(CaptureDriver, capArea, "f").result
         /\ capArea' = IF r.called THEN saved.area ELSE capArea
         /\ capPhase' = IF ~r.called THEN "skipped"
                        ELSE IF saved.done THEN "stored" ELSE "refused"
  /\ UNCHANGED <<capElements, resVars, pageVars, libVars>>

\* The user or a script changes the state of the form's controls.
EditControls ==
  /\ capPhase \in {"stored", "refused", "skipped"}
  /\ \E f \in RecaptureForms :
        /\ Len(f) = Len(capElements)
        /\ f # capElements
        /\ \A i \in 1..Len(f) : SameControl(capElements[i], f[i])
        /\ capElements' = f
  /\ capPhase' = "ready"
  /\ UNCHANGED <<capResult, capArea, capPrev, resVars, pageVars, libVars>>

RecaptureNext ==
  \/ \E setItemThrows \in BOOLEAN : Recapture(setItemThrows)
  \/ EditControls

SpecRecapture == RecaptureInit /\ [][RecaptureNext]_vars

\* The fields the form's controls give in their present state: per name
\* with a control that takes part and reads a value, the value of the last.
FieldsNow(elements) ==
  [n \in {elements[i].name : i \in
            {k \in 1..Len(elements) :
               Contributors(elements, elements[k].name) # {}}}
     |-> ReadOf(elements[Last(Contributors(elements, n))])]

\* C19. Fresh draft per capture: the draft passed to driver.save is built
\* from the state of the form's elements at that capture alone, and once
\* stored it is the whole of what the driver holds for the form: a key of
\* the draft held before that no element gives a value for now is not in it.
FreshDraftPerCapture ==
  /\ capPhase \in {"stored", "refused"} =>
        capResult.called /\ capResult.fields = FieldsNow(capElements)
  /\ capPhase = "stored" =>
        LET held == driverLoad(CaptureDriver, capArea, "f").result
        IN  /\ held.kind = "draft"
            /\ held.draft = Draft("f", FieldsNow(capElements))
            /\ \A n \in DOMAIN capPrev.draft.fields :
                  Contributors(capElements, n) = {}
                     => n \notin DOMAIN held.draft.fields

\* C19 witness: an earlier capture stored "y" for the radio group b; the
\* group now has no button checked, and the draft stored by the next capture
\* has a key a and no key b.
StaleKeyGone ==
  /\ capPhase = "stored"
  /\ capPrev.kind = "draft"
  /\ "b" \in DOMAIN capPrev.draft.fields
  /\ capPrev.draft.fields["b"] = Str("y")
  /\ \E i \in 1..Len(capElements) :
        capElements[i].type = "radio" /\ capElements[i].name = "b"
  /\ DOMAIN driverLoad(CaptureDriver, capArea, "f").result.draft.fields = {"a"}


(***************************************************************************)
(* SpecRestore: restoreForm applied to every form of RestoreForms and      *)
(* every outcome of driver.load of LoadOutcomes, with debug off and on.    *)
(***************************************************************************)
\* The elements the restore specification builds its forms from.
RestoreCatalog ==
  {TextInput("text", "a", "d"), TextInput("text", "", "d"),
   TextInput("text", "toString", "d"), TextInput("hidden", "a", "h"),
   TextInput("password", "b", "p"), Checkbox("b", TRUE),
   Radio("a", TRUE, "x", FALSE), Radio("a", TRUE, "y", TRUE),
   Radio("toString", TRUE, "x", TRUE),
   SelectOne("b", xyOptions(TRUE, FALSE)),
   SelectMultiple("b", xyOptions(TRUE, FALSE))}

RestoreForms ==
  {f \in SeqUpTo(RestoreCatalog, MaxRestoreElems) : RadioGroupsExclusive(f)}

\* The own keys of the stored drafts.
StoredFields ==
  {EmptyFields,
   [n \in {"a"} |-> Str("y")],
   [n \in {"a"} |-> Bool(TRUE)],
   [n \in {"a", "b"} |-> IF n = "a" THEN Str("x") ELSE Str("y")],
   [n \in {"b"} |-> Arr(<<"y">>)],
   [n \in {"b"} |-> Bool(FALSE)],
   [n \in {"b"} |-> Null]}

LoadOutcomes ==
  {LoadThrows, LoadNull, LoadTruthyNonDraft, LoadObject(NoProp)}
  \cup {LoadObject(Prop(v, EmptyFields)) :
          v \in {Null, Str(""), Str("junk"), Num("0"), Num("5"), Bool(TRUE),
                 Arr(<< >>)}}
  \cup {LoadObject(FieldsObject(own)) : own \in StoredFields}

ResInit ==
  /\ resElements \in RestoreForms
  /\ resLoaded \in LoadOutcomes
  /\ resDebug \in BOOLEAN
  /\ resPhase = "ready"
  /\ resResult = Restored(resElements, "none", {}, 0)
  /\ CapIdle
  /\ PageIdle
  /\ LibIdle

Restore ==
  /\ resPhase = "ready"
  /\ resPhase' = "restored"
  /\ resResult' = restoreForm(resElements, resLoaded, resDebug)
  /\ UNCHANGED <<resElements, resLoaded, resDebug, capVars, pageVars, libVars>>

ResNext == Restore

SpecRestore == ResInit /\ [][ResNext]_vars

\* The draft that was loaded has a fields mapping: a plain object.
HasFieldsMapping(loaded) ==
  loaded.kind = "value" /\ loaded.truthy /\ loaded.isObject
  /\ loaded.fields.v.t = "object"

\* C4. Restore degrades safely: when driver.load throws or returns nothing
\* usable (no draft, a payload of another shape, a draft whose fields is
\* missing or is no mapping), restoreForm changes no element and no error
\* leaves it.
RestoreDegradesSafely ==
  (resPhase = "restored" /\ ~HasFieldsMapping(resLoaded)) =>
     /\ resResult.elements = resElements
     /\ resResult.threw = "none"

\* C8. Restore frame: writeValue is called on an element only if it has a
\* name, the name is a key of the stored fields map and an adapter resolves
\* for it; every other element is left unchanged.
RestoreFrame ==
  (resPhase = "restored" /\ HasFieldsMapping(resLoaded)) =>
     \A i \in 1..Len(resElements) :
        LET el == resElements[i]
            mayWrite ==
              /\ el.name # ""
              /\ el.name \in DOMAIN resLoaded.fields.own
              /\ getFieldAdapterForElement(el, defaultAdapters) # "none"
        IN  /\ i \in resResult.written => mayWrite
            /\ ~mayWrite => resResult.elements[i] = el

(***************************************************************************)
(* SpecAdapter: the default adapters applied to single elements and to     *)
(* radio groups: canHandle of every adapter, writeValue of any stored      *)
(* value, and readValue / reset / writeValue / readValue.                  *)
(***************************************************************************)
\* Types of an input element that no adapter lists.
unlistedTypes ==
  {"password", "hidden", "file", "button", "submit", "reset", "image"}

\* Option lists of the selects: distinct values, a value carried twice, an
\* option with the empty value.
SelectOneOptions ==
  {xyOptions(FALSE, FALSE), xyOptions(TRUE, FALSE), xyOptions(FALSE, TRUE),
   <<Opt("x", FALSE), Opt("x", TRUE)>>, <<Opt("", TRUE), Opt("x", FALSE)>>}

SelectMultipleOptions ==
  {xyOptions(a, b) : a, b \in BOOLEAN}
  \cup {<<Opt("x", TRUE), Opt("x", FALSE)>>, <<Opt("", TRUE), Opt("x", TRUE)>>}

\* Single elements.  "1" stands for a value that is valid for the type.
AdapterSingles ==
  {TextInput(t, "a", v) : t \in textLikeTypes \cup unlistedTypes, v \in {"", "x"}}
  \cup {TextInput(t, "a", v) : t \in supportedTypes, v \in {"", "1"}}
  \cup {TextArea("a", v) : v \in {"", "x"}}
  \cup {Checkbox("a", c) : c \in BOOLEAN}
  \cup {SelectOne("a", o) : o \in SelectOneOptions}
  \cup {SelectMultiple("a", o) : o \in SelectMultipleOptions}
  \cup {OtherElement("button", "submit", "a"),
        OtherElement("fieldset", "fieldset", "a"),
        OtherElement("output", "output", "a")}

\* The members of a radio group: without a value attribute, or with one.
RadioCatalog ==
  {Radio("g", FALSE, "", c) : c \in BOOLEAN}
  \cup {Radio("g", TRUE, v, c) : v \in {"x", "y"}, c \in BOOLEAN}

RadioGroups ==
  {f \in SeqUpTo(RadioCatalog, MaxGroup) : f # << >> /\ RadioGroupsExclusive(f)}

AdapterForms == {<<e>> : e \in AdapterSingles} \cup RadioGroups

\* The values a stored draft can hold under a name.
StoredValues ==
  {Undefined, Null, Obj, Bool(TRUE), Bool(FALSE), Str(""), Str("x"), Str("on"),
   Num("0"), Num("5"), Arr(<< >>), Arr(<<"x">>), Arr(<<"x", "y">>)}

AdapterInit ==
  /\ adElements \in AdapterForms
  /\ adValue \in StoredValues
  /\ adAdapters = defaultAdapters
  /\ adPhase = "ready"
  /\ adResult = NoAdResult
  /\ CapIdle /\ ResIdle /\ PageIdle /\ StIdle /\ ContactIdle

AdapterOf(el) == getFieldAdapterForElement(el, defaultAdapters)

\* canHandle of every default adapter on every element.
Recognize ==
  /\ adPhase = "ready"
  /\ adPhase' = "recognized"
  /\ adResult' =
       [NoAdResult EXCEPT
          !.recognizers =
             [i \in 1..Len(adElements) |->
                {defaultAdapters[k] : k \in
                   {j \in 1..Len(defaultAdapters) :
                      /\ ~CanHandleThrows(defaultAdapters[j], adElements[i])
                      /\ CanHandle(defaultAdapters[j], adElements[i])}}]]
  /\ UNCHANGED <<adElements, adValue, adAdapters, capVars, resVars, pageVars, stVars, siteVars>>

RECURSIVE WriteAll(_, _, _)
\* writeValue(element, value) on every element from index i on that an
\* adapter handles, in document order.
WriteAll(elements, i, value) ==
  IF i > Len(elements) THEN elements
  ELSE LET adapter == AdapterOf(elements[i])
       IN  IF adapter = "none" THEN WriteAll(elements, i + 1, value)
           ELSE WriteAll(ApplyWrite(elements, i, adapter, value), i + 1, value)

Write ==
  /\ adPhase = "ready"
  /\ adPhase' = "written"
  /\ adResult' =
       [NoAdResult EXCEPT
          !.elements = WriteAll(adElements, 1, adValue),
          !.threw = \E i \in 1..Len(adElements) :
                       /\ AdapterOf(adElements[i]) # "none"
                       /\ WriteThrows(AdapterOf(adElements[i]), adElements[i],
                                      adValue)]
  /\ UNCHANGED <<adElements, adValue, adAdapters, capVars, resVars, pageVars, stVars, siteVars>>

\* An element after form.reset(), with empty defaults: no text, nothing
\* checked, the first option of a single select shown, no option of a
\* multiple select selected.
Reset(el) ==
  IF IsSelect(el)
  THEN [el EXCEPT !.options =
          [i \in 1..Len(el.options) |->
             Opt(el.options[i].value, ~Multiple(el) /\ i = 1)]]
  ELSE IF IsInput(el) /\ el.type \in {"checkbox", "radio"}
       THEN [el EXCEPT !.checked = FALSE]
       ELSE [el EXCEPT !.value = ""]

\* What was read for element i: its adapter's readValue; for a radio button
\* the value read from the checked member of its group, which is the value
\* kept under the group's name.
ReadForName(elements, i) ==
  LET adapter == AdapterOf(elements[i])
  IN  IF adapter = "none" THEN Undefined
      ELSE IF adapter # "radio" THEN ReadValue(adapter, elements[i])
      ELSE LET on == {j \in 1..Len(elements) :
                        /\ RadioCanHandle(elements[j])
                        /\ elements[j].name = elements[i].name
                        /\ elements[j].checked}
           IN  IF on = {} THEN Undefined
               ELSE ReadValue("radio", elements[CHOOSE j \in on : TRUE])

RECURSIVE WriteBack(_, _, _)
\* writeValue of what was read, from index i on, in document order; nothing
\* is written where the value read is absent.
WriteBack(elements, reads, i) ==
  IF i > Len(elements) THEN elements
  ELSE IF reads[i] = Undefined THEN WriteBack(elements, reads, i + 1)
  ELSE WriteBack(ApplyWrite(elements, i, AdapterOf(elements[i]), reads[i]),
                 reads, i + 1)

\* readValue of every element, reset, writeValue of the value read.
RoundTrip ==
  /\ adPhase = "ready"
  /\ adPhase' = "roundtrip"
  /\ LET reads == [i \in 1..Len(adElements) |-> ReadForName(adElements, i)]
         fresh == [i \in 1..Len(adElements) |-> Reset(adElements[i])]
     IN  adResult' = [NoAdResult EXCEPT
                        !.reads = reads,
                        !.elements = WriteBack(fresh, reads, 1)]
  /\ UNCHANGED <<adElements, adValue, adAdapters, capVars, resVars, pageVars, stVars, siteVars>>

AdapterNext == Recognize \/ Write \/ RoundTrip

SpecAdapter == AdapterInit /\ [][AdapterNext]_vars

\* C14. Recognition sets: the text adapter recognizes exactly textareas and
\* inputs of type text, search, email, url, tel; checkbox exactly inputs of
\* type checkbox; radio exactly inputs of type radio; select exactly select
\* elements; value exactly inputs of type number, range, date, time,
\* datetime-local, month, week, color.  No element is recognized by two
\* adapters, and an input of any other type by none.
RecognitionSets ==
  adPhase = "recognized" =>
     \A i \in 1..Len(adElements) :
        LET el == adElements[i]
            rec == adResult.recognizers[i]
            input == el.tag = "input"
        IN  /\ "text" \in rec <=>
                 \/ el.tag = "textarea"
                 \/ input /\ el.type \in {"text", "search", "email", "url", "tel"}
            /\ "checkbox" \in rec <=> (input /\ el.type = "checkbox")
            /\ "radio" \in rec <=> (input /\ el.type = "radio")
            /\ "select" \in rec <=> el.tag = "select"
            /\ "value" \in rec <=>
                 (input /\ el.type \in {"number", "range", "date", "time",
                                        "datetime-local", "month", "week", "color"})
            /\ Cardinality(rec) <= 1
            /\ (input /\ el.type \in {"password", "hidden", "file", "button"})
                  => rec = {}

\* C14 witness: canHandle was asked about a hidden input, and no adapter
\* recognized it.
HiddenInputRejected ==
  /\ adPhase = "recognized"
  /\ adElements[1].tag = "input" /\ adElements[1].type = "hidden"
  /\ adResult.recognizers[1] = {}

\* The values JavaScript's Boolean() turns into false.
Falsy == {Undefined, Null, Bool(FALSE), Str(""), Num("0"), Num("NaN")}

\* C12. Write tolerance: writeValue of a default adapter throws for no stored
\* value; given a value that is no string a text-like or value-typed element
\* ends with the empty string and a radio button ends unchecked; a multiple
\* select given no array and a single select given no string are left as
\* they were; a checkbox ends checked exactly when the value is truthy.
WriteTolerant ==
  adPhase = "written" =>
     /\ ~adResult.threw
     /\ \A i \in 1..Len(adElements) :
          LET el == adElements[i]
              after == adResult.elements[i]
              adapter == AdapterOf(el)
          IN  /\ (adapter \in {"text", "value"} /\ adValue.t # "string")
                    => after = [el EXCEPT !.value = ""]
              /\ (adapter = "radio" /\ adValue.t # "string")
                    => after = [el EXCEPT !.checked = FALSE]
              /\ (adapter = "select" /\ el.type = "select-multiple"
                    /\ adValue.t # "array") => after = el
              /\ (adapter = "select" /\ el.type = "select-one"
                    /\ adValue.t # "string") => after = el
              /\ adapter = "checkbox"
                    => after = [el EXCEPT !.checked = (adValue \notin Falsy)]
              /\ adapter = "none" => after = el

\* C12 witness: a multiple select with a selected option was handed a
\* string, a value that has an includes method but is no array, and was
\* left as it was.
StringWrittenToMultipleSelect ==
  /\ adPhase = "written"
  /\ adElements[1].type = "select-multiple"
  /\ \E k \in 1..Len(adElements[1].options) : adElements[1].options[k].selected
  /\ adValue = Str("x")
  /\ adResult.elements = adElements
  /\ ~adResult.threw

\* The members of the group of element i that are checked.
CheckedMembers(elements, i) ==
  {j \in 1..Len(elements) :
     /\ RadioCanHandle(elements[j])
     /\ elements[j].name = elements[i].name
     /\ elements[j].checked}

\* The strings of a sequence, as a set.
Members(a) == {a[k] : k \in 1..Len(a)}

\* C11 as stated. Adapter round trip: where readValue gave a value v,
\* writeValue of v on the reset element makes readValue give v again (the
\* same set of option values for a multiple select), and in a radio group
\* exactly the member that was checked is checked again.
RoundTripSameMember ==
  adPhase = "roundtrip" =>
     \A i \in 1..Len(adElements) :
        LET el == adElements[i]
            after == adResult.elements[i]
            adapter == AdapterOf(el)
            v == ReadValue(adapter, el)
        IN  (adapter # "none" /\ v # Undefined) =>
               CASE adapter = "select" /\ Multiple(el) ->
                      Members(ReadValue(adapter, after).a) = Members(v.a)
                 [] adapter = "radio" ->
                      CheckedMembers(adResult.elements, i)
                         = CheckedMembers(adElements, i)
                 [] OTHER -> ReadValue(adapter, after) = v

\* C11 amended. Adapter round trip: where readValue gave a value v,
\* writeValue of v on the reset element makes readValue give v again (the
\* same set of option values for a multiple select); a radio group ends
\* with exactly one member checked, the last member in document order whose
\* value is v, so the group reads v again and the member is the one that
\* was checked whenever no later member carries the same value.
RoundTripSameValue ==
  adPhase = "roundtrip" =>
     \A i \in 1..Len(adElements) :
        LET el == adElements[i]
            after == adResult.elements[i]
            adapter == AdapterOf(el)
            v == ReadValue(adapter, el)
        IN  (adapter # "none" /\ v # Undefined) =>
               CASE adapter = "select" /\ Multiple(el) ->
                      Members(ReadValue(adapter, after).a) = Members(v.a)
                 [] adapter = "radio" ->
                      LET same == {j \in 1..Len(adElements) :
                                     /\ adElements[j].name = el.name
                                     /\ DomValue(adElements[j]) = v}
                      IN  /\ CheckedMembers(adResult.elements, i) = {Last(same)}
                          /\ ReadForName(adResult.elements, i) = v
                          /\ (\A j \in same : j <= i)
                                => CheckedMembers(adResult.elements, i) = {i}
                 [] OTHER -> ReadValue(adapter, after) = v

\* C11 witness: a radio group of three with distinct values whose middle
\* member was checked went through the round trip and has that member, and
\* no other, checked again.
RadioGroupRoundTrip ==
  /\ adPhase = "roundtrip"
  /\ Len(adElements) = 3
  /\ DomValue(adElements[1]) = Str("x")
  /\ DomValue(adElements[2]) = Str("on")
  /\ DomValue(adElements[3]) = Str("y")
  /\ adElements[2].checked
  /\ adResult.reads[2] = Str("on")
  /\ CheckedMembers(adResult.elements, 2) = {2}

(***************************************************************************)
(* SpecRegistry: getFieldAdapterForElement on every adapter list of up to  *)
(* MaxAdapters default and custom adapters.                                *)
(***************************************************************************)
RegistryElements ==
  {<<TextInput("text", "a", "x")>>, <<TextInput("password", "a", "p")>>,
   <<TextInput("number", "a", "1")>>, <<Checkbox("a", TRUE)>>,
   <<Radio("a", TRUE, "x", TRUE)>>, <<SelectOne("a", xyOptions(TRUE, FALSE))>>,
   <<OtherElement("button", "submit", "a")>>}

AdapterLists ==
  SeqUpTo({defaultAdapters[k] : k \in 1..Len(defaultAdapters)}
             \cup customAdapters, MaxAdapters)

RegistryInit ==
  /\ adElements \in RegistryElements
  /\ adValue = Undefined
  /\ adAdapters \in AdapterLists
  /\ adPhase = "ready"
  /\ adResult = NoAdResult
  /\ CapIdle /\ ResIdle /\ PageIdle /\ StIdle /\ ContactIdle

Resolve ==
  /\ adPhase = "ready"
  /\ adPhase' = "resolved"
  /\ adResult' =
       [NoAdResult EXCEPT
          !.resolved = getFieldAdapterForElement(adElements[1], adAdapters)]
  /\ UNCHANGED <<adElements, adValue, adAdapters, capVars, resVars, pageVars, stVars, siteVars>>

RegistryNext == Resolve

SpecRegistry == RegistryInit /\ [][RegistryNext]_vars

\* Positions in the list of the adapters whose canHandle returns true.
Matches(adapters, el) ==
  {k \in 1..Len(adapters) :
     ~CanHandleThrows(adapters[k], el) /\ CanHandle(adapters[k], el)}

\* C13. Registry resolution: getFieldAdapterForElement returns the first
\* adapter of the list whose canHandle returns true, passing over adapters
\* whose canHandle throws; it returns null exactly when no adapter of the
\* list returns true; no error leaves it.
FirstMatchResolved ==
  adPhase = "resolved" =>
     LET hits == Matches(adAdapters, adElements[1])
     IN  /\ adResult.resolved # "Error"
         /\ hits = {} <=> adResult.resolved = "none"
         /\ hits # {} =>
              adResult.resolved =
                 adAdapters[CHOOSE k \in hits : \A j \in hits : k <= j]

\* C13 witness: the list began with an adapter whose canHandle throws and
\* the adapter after it was resolved.
ResolvedPastThrowingAdapter ==
  /\ adPhase = "resolved"
  /\ Len(adAdapters) >= 2
  /\ adAdapters[1] = "throwing"
  /\ adAdapters[2] = "radio"
  /\ adResult.resolved = "radio"

(***************************************************************************)
(* SpecDriver: a LocalStorageDriver or SessionStorageDriver is built and   *)
(* then used by save, load and clear.  SpecFacade: Savior.init builds the  *)
(* default driver, which is then used, and Savior.getDraft, exportDraft    *)
(* and clearDraft are called, with their own options.                      *)
(***************************************************************************)
StorageFields ==
  {[n \in {"a"} |-> Str("x")],
   [n \in {"a", "b"} |-> IF n = "a" THEN Bool(TRUE) ELSE Arr(<<"y">>)]}

DraftsOf(id) == {Draft(id, fields) : fields \in StorageFields}

\* What a storage area holds before the library is used: nothing; items
\* under the keys the probes use; drafts; texts that are no drafts.
InitialAreas ==
  {EmptyArea,
   [k \in {"__savior_support_test__", "__savior_test__",
           "__savior_session_test__"} |-> Raw("keep")],
   [k \in {"savior:f", "savior_draft_f", "f"} |->
      JSONStringify(Draft("f", [n \in {"a"} |-> Str("old")]))],
   [k \in {"p:f", "savior_session_draft_g"} |->
      IF k = "p:f" THEN Raw("junk") ELSE Raw("1")]}

\* The values of the storageKeyPrefix option (undefined: not given).
PrefixOptions == {Undefined, Null, Str(""), Str("p:"), Num("5")}

AllOptions == {Options(prefix, dbg) : prefix \in PrefixOptions, dbg \in BOOLEAN}

StorageInit ==
  /\ stEnv \in {"ok", "missing", "throws"}
  /\ \E area \in InitialAreas : stAreas = [local |-> area, session |-> area]
  /\ stDriver = NoDriver
  /\ stReg = [id \in StorageIds |-> LoadedNull]
  /\ stStale = {}
  /\ stLast = NoStCall
  /\ CapIdle /\ ResIdle /\ PageIdle /\ AdIdle /\ ContactIdle

\* new LocalStorageDriver(options) or new SessionStorageDriver(options).
NewDriver(kind, options) ==
  /\ stDriver = NoDriver /\ stLast.op = "none"
  /\ LET made == NewStorageDriver(kind, options.storageKeyPrefix, options.debug,
                                  stEnv, stAreas[kind],
                                  options.storageKeyPrefix, FALSE)
     IN  /\ stDriver' = made.driver
         /\ stAreas' = [stAreas EXCEPT ![kind] = made.area]
         /\ stReg' = IF made.threw THEN stReg
                     ELSE [id \in StorageIds |->
                             driverLoad(made.driver, made.area, id).result]
         /\ stLast' = StCall("new", "", options.storageKeyPrefix, FALSE, "",
                             LoadedNull, made.area # stAreas[kind], made.threw)
  /\ UNCHANGED <<stEnv, stStale, capVars, resVars, pageVars, adVars, siteVars>>

\* Savior.init(options) as far as the driver goes: checkSupport,
\* normalizeInitOptions, createDefaultDriver.
InitDriver(options) ==
  /\ stDriver = NoDriver /\ stLast.op = "none"
  /\ LET sup == isLocalStorageSupported(stEnv, stAreas.local)
         made == createDefaultDriver(normalizeInitOptions(options), stEnv,
                                     sup.area, options.storageKeyPrefix)
         threw == IF sup.ok THEN made.threw ELSE options.debug /\ warn # "ok"
         area == IF sup.ok THEN made.area ELSE sup.area
     IN  /\ stDriver' = IF sup.ok THEN made.driver ELSE NoDriver
         /\ stAreas' = [stAreas EXCEPT !.local = area]
         /\ stReg' = IF sup.ok /\ ~made.threw
                     THEN [id \in StorageIds |->
                             driverLoad(made.driver, area, id).result]
                     ELSE stReg
         /\ stLast' = StCall("init", "", options.storageKeyPrefix, TRUE, "",
                             LoadedNull, area # stAreas.local, threw)
  /\ UNCHANGED <<stEnv, stStale, capVars, resVars, pageVars, adVars, siteVars>>

DriverSave(id, draft, setItemThrows) ==
  /\ stDriver # NoDriver
  /\ setItemThrows => stDriver.isStorageAvailable
  /\ LET c == driverSave(stDriver, stAreas[stDriver.kind], id, draft, setItemThrows)
     IN  /\ stAreas' = [stAreas EXCEPT ![stDriver.kind] = c.area]
         /\ stReg' = [stReg EXCEPT ![id] = LoadResult("draft", draft)]
         /\ stStale' = IF c.done THEN stStale \ {id} ELSE stStale \cup {id}
         /\ stLast' = StCall("save", id, stDriver.option, stDriver.default, c.key,
                             c.result, c.area # stAreas[stDriver.kind], c.threw)
  /\ UNCHANGED <<stEnv, stDriver, capVars, resVars, pageVars, adVars, siteVars>>

DriverLoad(id) ==
  /\ stDriver # NoDriver
  /\ LET c == driverLoad(stDriver, stAreas[stDriver.kind], id)
     IN  stLast' = StCall("load", id, stDriver.option, stDriver.default, c.key,
                          c.result, FALSE, c.threw)
  /\ UNCHANGED <<stEnv, stAreas, stDriver, stReg, stStale,
                 capVars, resVars, pageVars, adVars, siteVars>>

DriverClear(id) ==
  /\ stDriver # NoDriver
  /\ LET c == driverClear(stDriver, stAreas[stDriver.kind], id)
     IN  /\ stAreas' = [stAreas EXCEPT ![stDriver.kind] = c.area]
         /\ stReg' = [stReg EXCEPT ![id] = LoadedNull]
         /\ stStale' = IF c.done THEN stStale \ {id} ELSE stStale
         /\ stLast' = StCall("clear", id, stDriver.option, stDriver.default, c.key,
                             c.result, c.area # stAreas[stDriver.kind], c.threw)
  /\ UNCHANGED <<stEnv, stDriver, capVars, resVars, pageVars, adVars, siteVars>>

DriverNext ==
  \/ \E kind \in {"local", "session"}, options \in AllOptions :
        NewDriver(kind, options)
  \/ \E id \in StorageIds, setItemThrows \in BOOLEAN :
        \E draft \in DraftsOf(id) : DriverSave(id, draft, setItemThrows)
  \/ \E id \in StorageIds : DriverLoad(id)
  \/ \E id \in StorageIds : DriverClear(id)

SpecDriver == StorageInit /\ [][DriverNext]_vars

EffectiveDriver(formId, options, given, env, areas) ==
  IF formId = "" THEN [ok |-> FALSE, driver |-> NoDriver, areas |-> areas]
  ELSE LET sup == isLocalStorageSupported(env, areas.local)
           made == createDefaultDriver(MergeOptions(options), env, sup.area,
                                       options.storageKeyPrefix)
       IN  IF ~sup.ok
           THEN [ok |-> FALSE, driver |-> NoDriver,
                 areas |-> [areas EXCEPT !.local = sup.area]]
           ELSE IF given # NoDriver
           THEN [ok |-> TRUE, driver |-> given,
                 areas |-> [areas EXCEPT !.local = sup.area]]
           ELSE [ok |-> ~made.threw, driver |-> made.driver,
                 areas |-> [areas EXCEPT !.local = made.area]]

\* Savior.getDraft(formId, options): the call of driver.load and the areas
\* afterwards.
getDraft(formId, options, given, env, areas) ==
  LET e == EffectiveDriver(formId, options, given, env, areas)
  IN  IF ~e.ok THEN StCall("getDraft", formId, options.storageKeyPrefix, FALSE,
                           "", LoadedNull, e.areas # areas, FALSE)
      ELSE LET c == driverLoad(e.driver, e.areas[e.driver.kind], formId)
           IN  StCall("getDraft", formId, e.driver.option, e.driver.default,
                      c.key, c.result, e.areas # areas, c.threw)

\* Savior.clearDraft(formId, options): the call of driver.clear and the areas
\* afterwards.
clearDraft(formId, options, given, env, areas) ==
  LET e == EffectiveDriver(formId, options, given, env, areas)
  IN  IF ~e.ok
      THEN [call |-> StCall("clearDraft", formId, options.storageKeyPrefix,
                            FALSE, "", LoadedNull, e.areas # areas, FALSE),
            areas |-> e.areas]
      ELSE LET c == driverClear(e.driver, e.areas[e.driver.kind], formId)
               after == [e.areas EXCEPT ![e.driver.kind] = c.area]
           IN  [call |-> StCall("clearDraft", formId, e.driver.option,
                                e.driver.default, c.key, c.result,
                                after # areas, c.threw),
                areas |-> after]

\* The areas after Savior.getDraft: those its first lines leave.
AreasAfterGet(formId, options, given) ==
  EffectiveDriver(formId, options, given, stEnv, stAreas).areas

\* Savior.getDraft(id, options); useDriver: options.driver is the driver
\* under study.
GetDraft(id, options, useDriver) ==
  /\ useDriver => stDriver # NoDriver
  /\ LET given == IF useDriver THEN stDriver ELSE NoDriver
     IN  /\ stLast' = getDraft(id, options, given, stEnv, stAreas)
         /\ stAreas' = AreasAfterGet(id, options, given)
  /\ UNCHANGED <<stEnv, stDriver, stReg, stStale,
                 capVars, resVars, pageVars, adVars, siteVars>>

\* Savior.exportDraft(id, options): getDraft, then the draft's pretty-printed
\* JSON text, or null.
ExportDraft(id, options, useDriver) ==
  /\ useDriver => stDriver # NoDriver
  /\ LET given == IF useDriver THEN stDriver ELSE NoDriver
     IN  /\ stLast' = [getDraft(id, options, given, stEnv, stAreas)
                         EXCEPT !.op = "exportDraft"]
         /\ stAreas' = AreasAfterGet(id, options, given)
  /\ UNCHANGED <<stEnv, stDriver, stReg, stStale,
                 capVars, resVars, pageVars, adVars, siteVars>>

\* Savior.clearDraft(id, options).
ClearDraft(id, options, useDriver) ==
  /\ useDriver => stDriver # NoDriver
  /\ LET given == IF useDriver THEN stDriver ELSE NoDriver
         r == clearDraft(id, options, given, stEnv, stAreas)
     IN  /\ stLast' = r.call
         /\ stAreas' = r.areas
  /\ UNCHANGED <<stEnv, stDriver, stReg, stStale,
                 capVars, resVars, pageVars, adVars, siteVars>>

\* The options of the calls of getDraft, exportDraft and clearDraft; their
\* debug option reaches only the driver's logWarn, which these calls do not
\* run into.
CallOptions == {Options(prefix, FALSE) : prefix \in PrefixOptions}

\* The formId arguments of those calls; the empty one stands for a missing
\* formId.
CallIds == {"f", ""}

\* The draft the facade specification saves for an identity.
DraftOf(id) == Draft(id, [n \in {"a"} |-> Str("x")])

FacadeNext ==
  \/ \E options \in AllOptions : InitDriver(options)
  \/ \E id \in StorageIds, setItemThrows \in BOOLEAN :
        DriverSave(id, DraftOf(id), setItemThrows)
  \/ \E id \in StorageIds : DriverLoad(id)
  \/ \E id \in StorageIds : DriverClear(id)
  \/ \E id \in CallIds, options \in CallOptions, useDriver \in BOOLEAN :
        GetDraft(id, options, useDriver)
  \/ \E id \in CallIds, options \in CallOptions, useDriver \in BOOLEAN :
        ExportDraft(id, options, useDriver)
  \/ \E id \in CallIds, options \in CallOptions, useDriver \in BOOLEAN :
        ClearDraft(id, options, useDriver)

SpecFacade == StorageInit /\ [][FacadeNext]_vars

\* C15. Storage key construction: a default driver built for the string
\* storageKeyPrefix given to Savior.init, getDraft or clearDraft, the empty
\* string included, reads, writes and removes the key that is the prefix
\* followed by the form identity.
KeyIsPrefixThenIdentity ==
  (stLast.default /\ stLast.option.t = "string" /\ stLast.key # "") =>
     stLast.key = stLast.option.s \o stLast.id

\* C16. Export is free of side effects: after Savior.getDraft and
\* Savior.exportDraft the storage areas hold the keys and values they held
\* before the call.
ExportKeepsStorage ==
  stLast.op \in {"getDraft", "exportDraft"} => ~stLast.changed


(***************************************************************************)
(* SpecFormRoundTrip: saveForm on a form of CaptureForms, then restoreForm *)
(* of the saved draft on the same form reset to its defaults.              *)
(***************************************************************************)
\* form.reset() on a form whose controls have empty defaults, and then
\* restoreForm with the draft that saveForm passed to driver.save, as the
\* driver loads it.
RestoreSaved ==
  /\ capPhase = "captured" /\ capResult.called
  /\ resPhase = "idle"
  /\ resElements' = [i \in 1..Len(capElements) |-> Reset(capElements[i])]
  /\ resLoaded' = StoredDraft(capResult)
  /\ resResult' = restoreForm([i \in 1..Len(capElements) |-> Reset(capElements[i])],
                              StoredDraft(capResult), FALSE)
  /\ resPhase' = "restored"
  /\ UNCHANGED <<resDebug, capVars, pageVars, libVars>>

FormRoundTripNext == Capture \/ RestoreSaved

SpecFormRoundTrip == CapInit /\ [][FormRoundTripNext]_vars

\* C24. Form-level round-trip: after a capture and a restore of the saved
\* draft into the form reset to its defaults, every element that took part
\* in the capture with a value reads the value it read at capture time,
\* also when several elements share a name.
FormRoundTrip ==
  (capPhase = "captured" /\ resPhase = "restored") =>
     \A i \in 1..Len(capElements) :
        (Captured(capElements[i]) /\ ReadOf(capElements[i]) # Undefined)
           => ReadOf(resResult.elements[i]) = ReadOf(capElements[i])


(***************************************************************************)
(* SpecContact: the ready handler of the site page that swaps the contact  *)
(* information, the bot detection, the delay and the events of the window. *)
(***************************************************************************)
\* rect.top of #contact as the page scrolls: the section above, at the
\* edges of and below the viewport, and at and one pixel past the margin.
ContactTops ==
  {0 - ContactHeight - Margin - 1, 0 - ContactHeight - Margin,
   0 - ContactHeight, 0, InnerHeight,
   InnerHeight + Margin, InnerHeight + Margin + 1}

ContactInit ==
  /\ \E hasEmail, hasPhone, hasContact \in BOOLEAN, top \in ContactTops :
        contact = ContactPage("ready", hasEmail, hasPhone, hasContact, top)
  /\ CapIdle /\ ResIdle /\ PageIdle /\ AdIdle /\ StIdle

\* $(document).ready: without #contact-email or #contact-phone it returns;
\* else it imports and runs the bot detection.
ContactReady ==
  /\ contact.pc = "ready"
  /\ contact' = [contact EXCEPT !.pc = IF ~contact.hasEmail THEN "absent"
                                       ELSE IF ~contact.hasPhone THEN "absent"
                                       ELSE "detecting"]
  /\ UNCHANGED <<capVars, resVars, pageVars, adVars, stVars>>

\* The promise chain settles: the import, load or detect was rejected (the
\* catch logs it), or result.bot is true (return), or it is false and
\* setTimeout is called with a delay of 200ms to 999ms.
Detected(outcome, delay) ==
  /\ contact.pc = "detecting"
  /\ contact' = IF outcome = "rejected" THEN [contact EXCEPT !.pc = "failed"]
                ELSE IF outcome = "bot" THEN [contact EXCEPT !.pc = "bot"]
                ELSE [contact EXCEPT !.pc = "waiting", !.left = delay]
  /\ UNCHANGED <<capVars, resVars, pageVars, adVars, stVars>>

\* Time passes while the timeout is pending.
ContactTick ==
  /\ contact.pc = "waiting" /\ contact.left > 0
  /\ contact' = [contact EXCEPT !.left = @ - 1]
  /\ UNCHANGED <<capVars, resVars, pageVars, adVars, stVars>>

\* The timeout callback: $(window).on('touchstart scroll', listener).
ContactTimeout ==
  /\ contact.pc = "waiting" /\ contact.left = 0
  /\ contact' = [contact EXCEPT !.pc = "listening"]
  /\ UNCHANGED <<capVars, resVars, pageVars, adVars, stVars>>

\* A scroll event after the page scrolled so that rect.top of #contact is
\* top, or a touchstart event (top as it is); the listener runs if it is on.
WindowEvent(type, top) ==
  /\ contact.pc # "idle"
  /\ type = "touchstart" => top = contact.top
  /\ type = "scroll" => top # contact.top
  /\ LET c == [contact EXCEPT !.top = top]
     IN  contact' = IF c.pc = "listening" THEN contactListener(c) ELSE c
  /\ UNCHANGED <<capVars, resVars, pageVars, adVars, stVars>>

ContactNext ==
  \/ ContactReady
  \/ \E outcome \in {"rejected", "bot", "human"}, delay \in 1..MaxContactDelay :
        Detected(outcome, delay)
  \/ ContactTick
  \/ ContactTimeout
  \/ \E type \in {"touchstart", "scroll"}, top \in ContactTops :
        WindowEvent(type, top)

SpecContact == ContactInit /\ [][ContactNext]_vars

\* The distance between #contact, at rect.top = top, and the viewport.
OffViewport(top) ==
  IF top > InnerHeight THEN top - InnerHeight
  ELSE IF top + ContactHeight < 0 THEN 0 - (top + ContactHeight)
  ELSE 0

\* C25. Contact-info gate: the real email and phone number are in
\* #contact-email and #contact-phone only if the bot detection resolved with
\* bot = false, the delay after it elapsed, and a scroll or touchstart
\* event then came with #contact within 300px of the viewport; they are
\* written once: with window.realContactInfo set no later event writes.
ContactInfoGated ==
  /\ [](/\ contact.writes <= 1
        /\ contact.real = (contact.writes = 1)
        /\ contact.real =>
              /\ contact.hasEmail /\ contact.hasPhone /\ contact.hasContact
              /\ contact.pc = "listening" /\ contact.wrotePc = "listening"
              /\ contact.left = 0
              /\ OffViewport(contact.wroteTop) <= Margin
              /\ contact.realContactInfo = Bool(TRUE))
  /\ [][(contact'.writes # contact.writes) =>
          /\ contact.pc = "listening" /\ contact.left = 0
          /\ contact.realContactInfo = Undefined
          /\ OffViewport(contact'.top) <= Margin]_vars

\* C25 witness: the real information was written on an event with #contact
\* just within 300px below the viewport, and the listener has run again
\* since, with #contact in the viewport, without a second write.
ContactInfoWrittenOnce ==
  /\ contact.real /\ contact.writes = 1
  /\ contact.wroteTop = InnerHeight + Margin
  /\ contact.after /\ OffViewport(contact.top) = 0

====
